---- MODULE Spec2Model ----
(***************************************************************************)
(* A model of Qlaude's streaming-process orchestration layer:              *)
(*   - claude-runner.ts: the stdout line framer, parseAndDispatch and the  *)
(*     close flush of runClaude;                                           *)
(*   - modal.ts (ClaudianModal): the run / cancel / clear / mode-switch    *)
(*     state machine and the callbacks it hands to runClaude.              *)
(*   - main.ts (ClaudianPlugin) and settings.ts: the settings, the tool     *)
(*     list and the plugin's data file.                                    *)
(* The specifications share the variables:                                 *)
(*   Spec        one process's stdout, cut into chunks at any byte offset; *)
(*   SpecParse   parseAndDispatch's dispatch on one parsed JSON value;     *)
(*   SpecModal   a modal instance, its user and the processes it started;  *)
(*   SpecTurn    one chat run on its own;                                  *)
(*   SpecLaunch  one call of runClaude and the runner it returns;          *)
(*   SpecStderr  the stderr chunks of one running process;                 *)
(*   SpecSpawn   the arguments and the environment runClaude gives spawn;  *)
(*   SpecPlugin  the plugin's settings and data file;                      *)
(*   SpecRun     the Run and Cancel controls of the modal;                 *)
(*   SpecTab     the permission toggles of the settings tab;               *)
(*   SpecPrompt  the tool list and the permission instructions of a run.   *)
(***************************************************************************)
EXTENDS Integers, Sequences, FiniteSets, TLC

VARIABLES
    \* ---- runClaude: one process's stdout pipeline (Spec)
    stream,       \* every byte the process writes to stdout, in order
    pos,          \* how many of them the 'data' handler has been given
    buffer,       \* runClaude's `buffer` (decoded text without a newline yet)
    dispatched,   \* ghost: one entry per parseAndDispatch call, in call order
    handlerThrew, \* ghost: a 'data'/'close' handler call ended by an exception
    lastBatch,    \* ghost: parseAndDispatch calls made by the latest 'data' call
    closed,       \* the 'close' handler has run
    exited,       \* the exit code it was given, the callbacks it made for it
    \* ---- parseAndDispatch on one value (SpecParse)
    parsed,       \* the value JSON.parse returned for the line
    outcome,      \* what the dispatch did with it (NoOutcome before the call)
    \* ---- a ClaudianModal instance and its collaborators (SpecModal)
    modal,        \* the fields of the modal (a record, named as in the class)
    procs,        \* the runs it started, in start order, each with its process
    stored,       \* the _chat entry of the plugin's data file
    storageOps,   \* storage.save / storage.clear calls still in flight
    restores,     \* restoreConversation calls waiting for storage.load
    lastCallback, \* ghost: how many callbacks the runs have made, and the latest
    \* ---- one chat run on its own (SpecTurn)
    turnEvents,   \* ghost: the events the run has delivered, in arrival order
    \* ---- one call of runClaude and the runner it returns (SpecLaunch)
    launched,     \* the call, the process, the runner, ghosts of what was reported
    \* ---- the plugin, its settings and its data file (SpecPlugin)
    plugin        \* the settings in memory, the data file, the calls in flight

runnerVars == <<stream, pos, buffer, dispatched, handlerThrew, lastBatch, closed,
                exited>>
parseVars  == <<parsed, outcome>>
modalVars  == <<modal, procs, stored, storageOps, restores, lastCallback, turnEvents,
                launched, plugin>>
vars == <<stream, pos, buffer, dispatched, handlerThrew, lastBatch, closed, exited, parsed,
          outcome, modal, procs, stored, storageOps, restores, lastCallback,
          turnEvents, launched, plugin>>

----------------------------------------------------------------------------
(* Bounds of the model.                                                    *)

\* the most lines (newline-separated texts) a modelled stdout stream holds
MaxLines == 3
\* the most content blocks of a modelled assistant or user record
MaxBlocks == 2
\* the most runs (processes) one modal instance starts
MaxRuns == 2
\* the most callbacks the processes of one modal make in all
MaxEvents == 2
\* the most storage.save / storage.clear calls in flight at once
MaxOps == 1
\* the most restoreConversation calls waiting at once
MaxRestores == 1

----------------------------------------------------------------------------
(* Sequence helpers.                                                       *)

Last(s) == s[Len(s)]
Front(s) == SubSeq(s, 1, Len(s) - 1)

RECURSIVE Flatten(_)
Flatten(ss) == IF ss = <<>> THEN <<>> ELSE Head(ss) \o Flatten(Tail(ss))

RECURSIVE IsSubseq(_, _)
\* a is b with some elements left out
IsSubseq(a, b) ==
    IF a = <<>> THEN TRUE
    ELSE IF b = <<>> THEN FALSE
    ELSE IF Head(a) = Head(b) THEN IsSubseq(Tail(a), Tail(b))
    ELSE IsSubseq(a, Tail(b))

----------------------------------------------------------------------------
(* JSON values, as JSON.parse returns them, and JavaScript's view of them. *)

JUndef    == [t |-> "undefined"]
JNull     == [t |-> "null"]
JBool(b)  == [t |-> "bool", v |-> b]
JNum(n)   == [t |-> "num", v |-> n]
JStr(s)   == [t |-> "str", v |-> s]
JArr(s)   == [t |-> "arr", v |-> s]
JObj(f)   == [t |-> "obj", v |-> f]
EmptyObj  == JObj(<<>>)

\* v.k : a TypeError on null and undefined (the caller tests Nullish first),
\* undefined on a primitive or an array, the field or undefined on an object
Get(v, k) == IF v.t = "obj" /\ k \in DOMAIN v.v THEN v.v[k] ELSE JUndef

Nullish(v) == v.t \in {"undefined", "null"}

\* if (v) ...
Truthy(v) ==
    /\ ~Nullish(v)
    /\ ~(v.t = "str" /\ v.v = "")
    /\ ~(v.t = "num" /\ v.v = 0)
    /\ ~(v.t = "bool" /\ v.v = FALSE)

\* v === "s"
IsStr(v, s) == v.t = "str" /\ v.v = s

\* a ?? d
Coalesce(a, d) == IF Nullish(a) THEN d ELSE a

----------------------------------------------------------------------------
(* parseAndDispatch, after JSON.parse: the dispatch on the parsed value.   *)
(* A handler's result is the callbacks it invoked, in order, and whether   *)
(* it ended by throwing (callbacks invoked before the throw stay invoked). *)

Return(calls) == [threw |-> FALSE, calls |-> calls]
Throw(calls)  == [threw |-> TRUE, calls |-> calls]

\* the value of `outcome` before parseAndDispatch has been called
NoOutcome == [threw |-> FALSE, calls |-> <<>>, done |-> FALSE]

\* one callback invocation; blk is the position of the content block that
\* caused it (0 for a record without blocks)
Call(cb, args, blk) == [cb |-> cb, args |-> args, blk |-> blk]

DefaultErrorMessage == "Unknown error from Claude"

\* String(v), as Array.prototype.join applies it to an element
RECURSIVE JsString(_)
RECURSIVE JsJoin(_, _)
JsJoin(s, sep) ==
    IF s = <<>> THEN ""
    ELSE IF Len(s) = 1 THEN (IF Nullish(s[1]) THEN "" ELSE JsString(s[1]))
    ELSE (IF Nullish(s[1]) THEN "" ELSE JsString(s[1])) \o sep \o JsJoin(Tail(s), sep)
JsString(v) ==
    CASE v.t = "str"  -> v.v
      [] v.t = "num"  -> ToString(v.v)
      [] v.t = "bool" -> IF v.v THEN "true" ELSE "false"
      [] v.t = "null" -> "null"
      [] v.t = "undefined" -> "undefined"
      [] v.t = "arr"  -> JsJoin(v.v, ",")
      [] v.t = "obj"  -> "[object Object]"

\* JSON.stringify(v): undefined for undefined, else the JSON text (objects
\* of the model have at most one field, so key order does not arise)
RECURSIVE JSONStringify(_)
JSONStringify(v) ==
    CASE v.t = "undefined" -> JUndef
      [] v.t = "null" -> JStr("null")
      [] v.t = "bool" -> JStr(IF v.v THEN "true" ELSE "false")
      [] v.t = "num"  -> JStr(ToString(v.v))
      [] v.t = "str"  -> JStr("\"" \o v.v \o "\"")
      [] v.t = "obj"  ->
            IF DOMAIN v.v = {} THEN JStr("{}")
            ELSE LET k == CHOOSE k \in DOMAIN v.v : TRUE
                 IN JStr("{\"" \o k \o "\":" \o JSONStringify(v.v[k]).v \o "}")

\* event.tools?.map((t) => t.name) ?? []
ToolNames(tools) ==
    IF Nullish(tools) THEN [threw |-> FALSE, v |-> JArr(<<>>)]
    ELSE IF tools.t # "arr" THEN [threw |-> TRUE, v |-> JUndef]
    ELSE IF \E i \in 1..Len(tools.v) : Nullish(tools.v[i])
         THEN [threw |-> TRUE, v |-> JUndef]
    ELSE [threw |-> FALSE,
          v |-> JArr([i \in 1..Len(tools.v) |-> Get(tools.v[i], "name")])]

\* mutant: every system record is taken for an init record
DispatchSystemAnySubtype(event) ==
    LET sessionId == Get(event, "session_id")
        tools == ToolNames(Get(event, "tools"))
    IN IF tools.threw THEN Throw(<<>>)
       ELSE Return(<<Call("onSystemInit", <<sessionId, tools.v>>, 0)>>)

DispatchSystem(event) ==
    IF IsStr(Get(event, "subtype"), "init")
    THEN LET sessionId == Get(event, "session_id")
             tools == ToolNames(Get(event, "tools"))
         IN IF tools.threw THEN Throw(<<>>)
            ELSE Return(<<Call("onSystemInit", <<sessionId, tools.v>>, 0)>>)
    ELSE Return(<<>>)

\* one pass of the body of `for (const block of message.content)` of an
\* assistant record
AssistantBlock(block, i) ==
    IF Nullish(block) THEN Throw(<<>>)
    ELSE LET blockType == Get(block, "type") IN
         IF IsStr(blockType, "text")
         THEN LET text == Get(block, "text")
              IN IF Truthy(text) THEN Return(<<Call("onText", <<text>>, i)>>)
                 ELSE Return(<<>>)
         ELSE IF IsStr(blockType, "tool_use")
         THEN Return(<<Call("onToolUse",
                  <<JObj([id |-> Get(block, "id"),
                          name |-> Get(block, "name"),
                          input |-> Coalesce(Get(block, "input"), EmptyObj)])>>, i)>>)
         ELSE Return(<<>>)

\* the normalisation of a tool_result block's content to contentStr
ContentStr(rawContent) ==
    IF rawContent.t = "str" THEN [threw |-> FALSE, v |-> rawContent]
    ELSE IF rawContent.t = "arr"
    THEN IF \E i \in 1..Len(rawContent.v) : Nullish(rawContent.v[i])
         THEN [threw |-> TRUE, v |-> JUndef]
         ELSE [threw |-> FALSE,
               v |-> JStr(JsJoin([i \in 1..Len(rawContent.v) |->
                            Coalesce(Get(rawContent.v[i], "text"), JStr(""))], "\n"))]
    ELSE [threw |-> FALSE, v |-> JSONStringify(rawContent)]

\* one pass of the body of the loop of a user record
UserBlock(block, i) ==
    IF Nullish(block) THEN Throw(<<>>)
    ELSE IF IsStr(Get(block, "type"), "tool_result")
    THEN LET contentStr == ContentStr(Get(block, "content"))
         IN IF contentStr.threw THEN Throw(<<>>)
            ELSE Return(<<Call("onToolResult",
                     <<JObj([tool_use_id |-> Get(block, "tool_use_id"),
                             content |-> contentStr.v])>>, i)>>)
    ELSE Return(<<>>)

BlockBody(kind, block, i) ==
    IF kind = "assistant" THEN AssistantBlock(block, i) ELSE UserBlock(block, i)

\* the for loop over the blocks from position i on: a throw ends it
RECURSIVE ForBlocks(_, _, _)
ForBlocks(kind, blocks, i) ==
    IF i > Len(blocks) THEN Return(<<>>)
    ELSE LET r == BlockBody(kind, blocks[i], i) IN
         IF r.threw THEN r
         ELSE LET rest == ForBlocks(kind, blocks, i + 1)
              IN [threw |-> rest.threw, calls |-> r.calls \o rest.calls]

\* the assistant and the user branch: the guard on message?.content, then
\* the loop. A string iterates by character and a character has no type, so
\* the loop does nothing; any other value that is not an array is not
\* iterable.
DispatchBlocks(kind, event) ==
    LET message == Get(event, "message")
        content == IF Nullish(message) THEN JUndef ELSE Get(message, "content")
    IN IF ~Truthy(content) THEN Return(<<>>)
       ELSE IF content.t = "arr" THEN ForBlocks(kind, content.v, 1)
       ELSE IF content.t = "str" THEN Return(<<>>)
       ELSE Throw(<<>>)

\* mutant: the default message replaces every falsy error (|| for ??)
DispatchResultOrDefault(event) ==
    LET subtype == Get(event, "subtype") IN
    IF IsStr(subtype, "success")
    THEN LET turns == Coalesce(Get(event, "num_turns"), JNum(0))
             cost == Coalesce(Get(event, "cost_usd"), JNum(0))
         IN Return(<<Call("onDone", <<turns, cost>>, 0)>>)
    ELSE IF IsStr(subtype, "error")
    THEN LET error == Get(event, "error")
         IN Return(<<Call("onError",
                <<IF Truthy(error) THEN error ELSE JStr(DefaultErrorMessage)>>, 0)>>)
    ELSE Return(<<>>)

\* mutant: onDone is given the cost first and the turns second
DispatchResultSwapped(event) ==
    LET subtype == Get(event, "subtype") IN
    IF IsStr(subtype, "success")
    THEN LET turns == Coalesce(Get(event, "num_turns"), JNum(0))
             cost == Coalesce(Get(event, "cost_usd"), JNum(0))
         IN Return(<<Call("onDone", <<cost, turns>>, 0)>>)
    ELSE IF IsStr(subtype, "error")
    THEN LET error == Get(event, "error")
         IN Return(<<Call("onError", <<Coalesce(error, JStr(DefaultErrorMessage))>>, 0)>>)
    ELSE Return(<<>>)

DispatchResult(event) ==
    LET subtype == Get(event, "subtype") IN
    IF IsStr(subtype, "success")
    THEN LET turns == Coalesce(Get(event, "num_turns"), JNum(0))
             cost == Coalesce(Get(event, "cost_usd"), JNum(0))
         IN Return(<<Call("onDone", <<turns, cost>>, 0)>>)
    ELSE IF IsStr(subtype, "error")
    THEN LET error == Get(event, "error")
         IN Return(<<Call("onError", <<Coalesce(error, JStr(DefaultErrorMessage))>>, 0)>>)
    ELSE Return(<<>>)

\* parseAndDispatch from `const type = event.type` on; event.type on null is
\* a TypeError
Dispatch(event) ==
    IF Nullish(event) THEN Throw(<<>>)
    ELSE LET type == Get(event, "type") IN
         IF IsStr(type, "system") THEN DispatchSystem(event)
         ELSE IF IsStr(type, "assistant") THEN DispatchBlocks("assistant", event)
         ELSE IF IsStr(type, "user") THEN DispatchBlocks("user", event)
         ELSE IF IsStr(type, "result") THEN DispatchResult(event)
         ELSE Return(<<>>)

----------------------------------------------------------------------------
(* The JSON values the dispatch is applied to: for each record type of the *)
(* wire protocol, every combination of its fields being well-formed,       *)
(* absent, null or of the wrong kind; and values that are no object.       *)

\* an object from a record of candidate fields; JUndef marks an absent field
MkObj(f) == JObj([k \in {k \in DOMAIN f : f[k].t # "undefined"} |-> f[k]])

SeqsUpTo(S, n) == UNION {[1..m -> S] : m \in 0..n}

NonObjectValues == {JNull, JNum(5), JStr("hi"), JBool(TRUE), JArr(<<>>)}

ResultRecords ==
    {MkObj([type |-> JStr("result"), subtype |-> st, num_turns |-> nt,
            cost_usd |-> c, error |-> e]) :
        st \in {JUndef, JStr("success"), JStr("error"), JStr("cancelled")},
        nt \in {JUndef, JNull, JNum(3)},
        c \in {JUndef, JNum(2)},
        e \in {JUndef, JNull, JStr("boom"), JStr("")}}

ToolsFields ==
    {JUndef, JNull, JNum(5), JStr("Read"), EmptyObj,
     JArr(<<>>),
     JArr(<<MkObj([name |-> JStr("Read")])>>),
     JArr(<<MkObj([name |-> JStr("Read")]), MkObj([name |-> JStr("Edit")])>>),
     JArr(<<EmptyObj>>),
     JArr(<<JNull>>),
     JArr(<<MkObj([name |-> JStr("Read")]), JNull>>)}

SystemRecords ==
    {MkObj([type |-> JStr("system"), subtype |-> st, session_id |-> sid,
            tools |-> tl]) :
        st \in {JUndef, JStr("init"), JStr("status")},
        sid \in {JUndef, JStr("abc")},
        tl \in ToolsFields}

AssistantBlocks ==
    {JNull, JStr("x"), EmptyObj,
     MkObj([type |-> JStr("image")]),
     MkObj([type |-> JStr("text"), text |-> JStr("a")]),
     MkObj([type |-> JStr("text"), text |-> JStr("b")]),
     MkObj([type |-> JStr("text"), text |-> JStr("")]),
     MkObj([type |-> JStr("text")]),
     MkObj([type |-> JStr("tool_use"), id |-> JStr("t1"), name |-> JStr("Read"),
            input |-> MkObj([file_path |-> JStr("n.md")])]),
     MkObj([type |-> JStr("tool_use"), id |-> JStr("t2"), name |-> JStr("LS")])}

ToolResultContents ==
    {JUndef, JNull, JNum(7), JStr("out"), JStr(""),
     MkObj([text |-> JStr("x")]),
     JArr(<<>>),
     JArr(<<MkObj([text |-> JStr("x")]), MkObj([text |-> JStr("y")])>>),
     JArr(<<EmptyObj, MkObj([text |-> JStr("y")])>>),
     JArr(<<JNull>>)}

UserBlocks ==
    {JNull, EmptyObj, MkObj([type |-> JStr("text"), text |-> JStr("a")])}
    \cup {MkObj([type |-> JStr("tool_result"), tool_use_id |-> JStr("t1"),
                 content |-> c]) : c \in ToolResultContents}

BlockRecords(type, Blocks) ==
    {MkObj([type |-> JStr(type), message |-> m]) :
        m \in {JUndef, JNull, JNum(5)}
              \cup {MkObj([content |-> c]) :
                       c \in {JUndef, JNull, JStr(""), JStr("abc"), JNum(5), EmptyObj}
                             \cup {JArr(b) : b \in SeqsUpTo(Blocks, MaxBlocks)}}}

OtherRecords ==
    {MkObj([type |-> t, subtype |-> JStr("init")]) :
        t \in {JUndef, JNull, JNum(5), JStr("ping"), JStr("System")}}

JsonValues ==
    NonObjectValues \cup ResultRecords \cup SystemRecords \cup OtherRecords
    \cup BlockRecords("assistant", AssistantBlocks)
    \cup BlockRecords("user", UserBlocks)

----------------------------------------------------------------------------
(* Text. A stdout stream is a sequence of bytes; a decoded text is a       *)
(* sequence of characters. The bytes "C3" "A9" are the UTF-8 encoding of   *)
(* the one character U+00E9; every other byte of the model is ASCII and    *)
(* is its own character.                                                   *)

NL == "\n"
Whitespace == {" ", NL}

\* chunk.toString("utf8") on one chunk: a sequence that is incomplete at
\* either end of the chunk decodes to U+FFFD, the replacement character
RECURSIVE Utf8ToString(_)
Utf8ToString(bytes) ==
    IF bytes = <<>> THEN <<>>
    ELSE IF Head(bytes) = "C3"
    THEN IF Len(bytes) >= 2 /\ bytes[2] = "A9"
         THEN <<"U+00E9">> \o Utf8ToString(SubSeq(bytes, 3, Len(bytes)))
         ELSE <<"U+FFFD">> \o Utf8ToString(Tail(bytes))
    ELSE IF Head(bytes) = "A9" THEN <<"U+FFFD">> \o Utf8ToString(Tail(bytes))
    ELSE <<Head(bytes)>> \o Utf8ToString(Tail(bytes))

\* text.split("\n"): at least one element, the last is what follows the
\* last newline
RECURSIVE Split(_)
Split(text) ==
    IF text = <<>> THEN << <<>> >>
    ELSE LET rest == Split(Tail(text)) IN
         IF Head(text) = NL THEN << <<>> >> \o rest
         ELSE << <<Head(text)>> \o Head(rest) >> \o Tail(rest)

\* text.trim()
RECURSIVE TrimStart(_)
TrimStart(text) ==
    IF text # <<>> /\ Head(text) \in Whitespace THEN TrimStart(Tail(text)) ELSE text
RECURSIVE TrimEnd(_)
TrimEnd(text) ==
    IF text # <<>> /\ Last(text) \in Whitespace THEN TrimEnd(Front(text)) ELSE text
Trim(text) == TrimEnd(TrimStart(text))

(* JSON texts. The JSON text of a record is modelled by "{", a key naming  *)
(* the record, the characters of its one string field if it has one, and   *)
(* "}"; JSON.parse accepts exactly these texts (with white space around    *)
(* them) and throws a SyntaxError on every other text.                     *)

Keys == {"T", "A", "R", "N"}
StringChars == {"U+00E9", "U+FFFD"}

RECURSIVE Concat(_)
Concat(chars) == IF chars = <<>> THEN "" ELSE Head(chars) \o Concat(Tail(chars))

\* the value a JSON text denotes
Catalogue(key, payload) ==
    CASE key = "T" ->   \* {"type":"assistant","message":{"content":[{"type":"text","text":"a<payload>"}]}}
            MkObj([type |-> JStr("assistant"), message |-> MkObj([content |->
                JArr(<<MkObj([type |-> JStr("text"),
                              text |-> JStr("a" \o Concat(payload))])>>)])])
      [] key = "A" ->   \* an assistant record of a text block and a tool_use block
            MkObj([type |-> JStr("assistant"), message |-> MkObj([content |->
                JArr(<<MkObj([type |-> JStr("text"), text |-> JStr("b")]),
                       MkObj([type |-> JStr("tool_use"), id |-> JStr("t1"),
                              name |-> JStr("Read")])>>)])])
      [] key = "R" ->   \* {"type":"result","subtype":"success","num_turns":3,"cost_usd":2}
            MkObj([type |-> JStr("result"), subtype |-> JStr("success"),
                   num_turns |-> JNum(3), cost_usd |-> JNum(2)])
      [] key = "N" ->   \* null
            JNull

IsJsonText(line) ==
    LET t == Trim(line) IN
    /\ Len(t) >= 3
    /\ t[1] = "{" /\ Last(t) = "}" /\ t[2] \in Keys
    /\ IF t[2] = "T" THEN \A i \in 3..(Len(t) - 1) : t[i] \in StringChars
       ELSE Len(t) = 3

JSONParse(line) ==
    LET t == Trim(line) IN Catalogue(t[2], SubSeq(t, 3, Len(t) - 1))

\* mutant: the SyntaxError of JSON.parse is not caught
ParseAndDispatchNoCatch(line) ==
    IF Trim(line) = <<>> THEN Return(<<>>)
    ELSE IF ~IsJsonText(line) THEN Throw(<<>>)
    ELSE Dispatch(JSONParse(line))

\* parseAndDispatch(line, callbacks)
ParseAndDispatch(line) ==
    IF Trim(line) = <<>> THEN Return(<<>>)
    ELSE IF ~IsJsonText(line) THEN Return(<<>>)
    ELSE Dispatch(JSONParse(line))

----------------------------------------------------------------------------
(* ClaudianModal: its fields as a record, and its methods and the          *)
(* callbacks it gives runClaude as functions from the fields before to the *)
(* fields after. Texts are sequences of characters. The DOM is left out    *)
(* but for what the code reads back from it: whether currentTextBlock and  *)
(* currentTurnClaudeEl are set, the textarea's value and disabled flag.    *)

Null == "<null>"
NoRunner == 0
Separator == <<NL, NL>>

\* text.endsWith(suffix)
EndsWith(text, suffix) ==
    /\ Len(text) >= Len(suffix)
    /\ SubSeq(text, Len(text) - Len(suffix) + 1, Len(text)) = suffix

\* the field initialisers of the class, after onOpen
ModalOpened ==
    [mode |-> "quick", status |-> "idle", runner |-> NoRunner, toolCards |-> {},
     turns |-> 0, costUsd |-> 0,
     currentTextBlock |-> FALSE, currentTextContent |-> <<>>,
     currentTurnMarkdown |-> <<>>, persistedTurns |-> <<>>,
     currentTurnClaudeEl |-> FALSE, sessionId |-> Null,
     promptValue |-> <<>>, promptDisabled |-> FALSE, isOpen |-> TRUE]

ChatTurnData(userText, claudeMarkdown) ==
    [userText |-> userText, claudeMarkdown |-> claudeMarkdown]

handleText(m, text) ==
    [m EXCEPT !.currentTextBlock = TRUE,
              !.currentTextContent =
                  (IF m.currentTextBlock THEN m.currentTextContent ELSE <<>>) \o text,
              !.currentTurnMarkdown = m.currentTurnMarkdown \o text]

\* mutant: a separator is appended whenever the transcript does not end with
\* one, the empty transcript included
handleToolUseAlwaysSeparates(m, id) ==
    [m EXCEPT !.currentTurnMarkdown =
                  IF ~EndsWith(m.currentTurnMarkdown, Separator)
                  THEN m.currentTurnMarkdown \o Separator
                  ELSE m.currentTurnMarkdown,
              !.currentTextBlock = FALSE,
              !.currentTextContent = <<>>,
              !.toolCards = m.toolCards \cup {id}]

handleToolUse(m, id) ==
    [m EXCEPT !.currentTurnMarkdown =
                  IF m.currentTurnMarkdown # <<>>
                     /\ ~EndsWith(m.currentTurnMarkdown, Separator)
                  THEN m.currentTurnMarkdown \o Separator
                  ELSE m.currentTurnMarkdown,
              !.currentTextBlock = FALSE,
              !.currentTextContent = <<>>,
              !.toolCards = m.toolCards \cup {id}]

\* mutant: a tool result also closes the live text segment
handleToolResultClosesSegment(m, id) ==
    [m EXCEPT !.toolCards = m.toolCards \ {id},
              !.currentTextBlock = FALSE, !.currentTextContent = <<>>]

handleToolResult(m, id) == [m EXCEPT !.toolCards = m.toolCards \ {id}]

appendError(m) == [m EXCEPT !.currentTextBlock = FALSE, !.currentTextContent = <<>>]

\* the callbacks of runQuick
quickOnDone(m, turns, costUsd) ==
    [m EXCEPT !.turns = turns, !.costUsd = costUsd,
              !.promptDisabled = TRUE, !.status = "done"]

quickOnError(m) ==
    [appendError(m) EXCEPT !.promptDisabled = TRUE, !.status = "error"]

\* the callbacks of runChat; prompt is the prompt the run was started with
chatOnSystemInit(m, sid) == [m EXCEPT !.sessionId = sid]

\* mutant: onDone leaves the accumulated transcript in its buffer
chatOnDoneKeepsTranscript(m, prompt, turns, costUsd) ==
    [m EXCEPT !.turns = turns, !.costUsd = costUsd,
              !.persistedTurns =
                  Append(m.persistedTurns, ChatTurnData(prompt, m.currentTurnMarkdown)),
              !.currentTurnClaudeEl = FALSE,
              !.currentTextBlock = FALSE,
              !.currentTextContent = <<>>,
              !.status = "done",
              !.promptDisabled = FALSE]

chatOnDone(m, prompt, turns, costUsd) ==
    [m EXCEPT !.turns = turns, !.costUsd = costUsd,
              !.persistedTurns =
                  Append(m.persistedTurns, ChatTurnData(prompt, m.currentTurnMarkdown)),
              !.currentTurnClaudeEl = FALSE,
              !.currentTextBlock = FALSE,
              !.currentTextContent = <<>>,
              !.currentTurnMarkdown = <<>>,
              !.status = "done",
              !.promptDisabled = FALSE]

\* mutant: onError leaves the accumulated transcript in its buffer
chatOnErrorKeepsTranscript(m) ==
    [appendError(m) EXCEPT !.currentTurnClaudeEl = FALSE,
                           !.status = "error",
                           !.promptDisabled = FALSE]

chatOnError(m) ==
    [appendError(m) EXCEPT !.currentTurnClaudeEl = FALSE,
                           !.currentTextBlock = FALSE,
                           !.currentTextContent = <<>>,
                           !.currentTurnMarkdown = <<>>,
                           !.status = "error",
                           !.promptDisabled = FALSE]

\* runQuick and runChat up to and including `this.runner = runClaude(...)`
\* for a launch that does not call back synchronously; r is the new run
runQuick(m, r) ==
    [m EXCEPT !.toolCards = {}, !.currentTextBlock = FALSE,
              !.currentTextContent = <<>>, !.turns = 0, !.costUsd = 0,
              !.status = "running", !.runner = r]

runChat(m, r) ==
    [m EXCEPT !.toolCards = {}, !.currentTextBlock = FALSE,
              !.currentTextContent = <<>>, !.currentTurnMarkdown = <<>>,
              !.currentTurnClaudeEl = TRUE, !.promptValue = <<>>,
              !.status = "running", !.runner = r]

\* switchMode(newMode), newMode # mode, without the call of restoreConversation
switchMode(m, newMode) ==
    LET common == [m EXCEPT !.runner = NoRunner, !.mode = newMode,
                            !.currentTurnClaudeEl = FALSE,
                            !.currentTextBlock = FALSE,
                            !.currentTextContent = <<>>,
                            !.currentTurnMarkdown = <<>>,
                            !.toolCards = {},
                            !.promptDisabled = FALSE,
                            !.status = "idle"]
    IN IF newMode = "quick"
       THEN [common EXCEPT !.sessionId = Null, !.persistedTurns = <<>>]
       ELSE common

\* restoreConversation after `await this.storage.load()`
restoreConversation(m, loaded) ==
    [m EXCEPT !.sessionId = loaded.sessionId, !.persistedTurns = loaded.turns]

\* handleClear without the call of storage.clear
handleClear(m) ==
    [m EXCEPT !.runner = NoRunner, !.sessionId = Null, !.persistedTurns = <<>>,
              !.currentTextBlock = FALSE, !.currentTextContent = <<>>,
              !.currentTurnMarkdown = <<>>, !.currentTurnClaudeEl = FALSE,
              !.toolCards = {}, !.promptDisabled = FALSE, !.status = "idle"]

onClose(m) == [m EXCEPT !.runner = NoRunner, !.isOpen = FALSE]

\* mutant: cancelling a chat run leaves the transcript of the turn in place
handleCancelKeepsTranscript(m) ==
    IF m.status = "running" /\ m.runner # NoRunner
    THEN LET killed == [m EXCEPT !.runner = NoRunner] IN
         [(IF m.mode = "chat"
           THEN [killed EXCEPT !.currentTurnClaudeEl = FALSE,
                               !.currentTextBlock = FALSE,
                               !.currentTextContent = <<>>,
                               !.promptDisabled = FALSE]
           ELSE killed) EXCEPT !.status = "cancelled"]
    ELSE onClose(m)

\* mutant: cancelling a run also forgets the session
handleCancelDropsSession(m) ==
    IF m.status = "running" /\ m.runner # NoRunner
    THEN LET killed == [m EXCEPT !.runner = NoRunner, !.sessionId = Null] IN
         [(IF m.mode = "chat"
           THEN [killed EXCEPT !.currentTurnClaudeEl = FALSE,
                               !.currentTextBlock = FALSE,
                               !.currentTextContent = <<>>,
                               !.currentTurnMarkdown = <<>>,
                               !.promptDisabled = FALSE]
           ELSE killed) EXCEPT !.status = "cancelled"]
    ELSE onClose(m)

handleCancel(m) ==
    IF m.status = "running" /\ m.runner # NoRunner
    THEN LET killed == [m EXCEPT !.runner = NoRunner] IN
         [(IF m.mode = "chat"
           THEN [killed EXCEPT !.currentTurnClaudeEl = FALSE,
                               !.currentTextBlock = FALSE,
                               !.currentTextContent = <<>>,
                               !.currentTurnMarkdown = <<>>,
                               !.promptDisabled = FALSE]
           ELSE killed) EXCEPT !.status = "cancelled"]
    ELSE onClose(m)

\* an option that is not passed, a value that is undefined
Undefined == "<undefined>"
\* v ?? undefined
OrUndefined(v) == IF v = Null THEN Undefined ELSE v

\* the arguments runClaude gives spawn; the model, the system prompt and the
\* tool list are those of the settings
BaseArgs(prompt) ==
    <<"-p", prompt, "--output-format", "stream-json", "--verbose",
      "--model", "<settings.model>", "--system-prompt", "<systemPrompt>",
      "--allowedTools", "<tools>", "--dangerously-skip-permissions">>

\* mutant: the resume argument is pushed for every sessionId that is passed
runClaudeArgsUnlessUndefined(prompt, sessionId) ==
    BaseArgs(prompt) \o
        (IF sessionId # Undefined THEN <<"--resume", sessionId>> ELSE <<>>)

\* if (sessionId) args.push("--resume", sessionId)
runClaudeArgs(prompt, sessionId) ==
    BaseArgs(prompt) \o
        (IF sessionId \notin {Undefined, Null, ""} THEN <<"--resume", sessionId>>
         ELSE <<>>)

\* no callback has been made yet
NoCallback == [n |-> 0, run |-> 0, kind |-> "none", id |-> "none"]

\* the plugin's data file has no _chat entry
NoChat == [sessionId |-> Null, turns |-> <<>>, present |-> FALSE]
Chat(sessionId, turns) == [sessionId |-> sessionId, turns |-> turns, present |-> TRUE]

\* storage.load(): data._chat ?? { sessionId: null, turns: [] }
storageLoad(data) == [sessionId |-> data.sessionId, turns |-> data.turns]

\* the process has not exited
NoExit == [code |-> "none", calls |-> <<>>]

\* runClaude has not been called
NoLaunch == [phase |-> "none"]

\* the plugin is not part of the specification
NoPlugin == [phase |-> "none"]

\* the modal's variables in the specifications that have no modal
ModalUnused ==
    /\ modal = ModalOpened /\ procs = <<>> /\ stored = NoChat
    /\ storageOps = <<>> /\ restores = 0 /\ lastCallback = NoCallback
    /\ turnEvents = <<>> /\ launched = NoLaunch /\ plugin = NoPlugin

----------------------------------------------------------------------------
(* Spec: the stdout 'data' handler and the 'close' handler of runClaude.   *)

\* a ghost entry: one call of parseAndDispatch, the line it was given, the
\* callbacks it invoked and whether it threw
Entry(line, r) == [line |-> line, threw |-> r.threw, calls |-> r.calls]

\* mutant: the lines of a chunk are dispatched last first
RECURSIVE ForLinesLastFirst(_)
ForLinesLastFirst(lines) ==
    IF lines = <<>> THEN <<>>
    ELSE LET r == ParseAndDispatch(Last(lines)) IN
         IF r.threw THEN <<Entry(Last(lines), r)>>
         ELSE <<Entry(Last(lines), r)>> \o ForLinesLastFirst(Front(lines))

\* for (const line of lines) parseAndDispatch(line, callbacks): an exception
\* leaves the loop and the handler
RECURSIVE ForLines(_)
ForLines(lines) ==
    IF lines = <<>> THEN <<>>
    ELSE LET r == ParseAndDispatch(Head(lines)) IN
         IF r.threw THEN <<Entry(Head(lines), r)>>
         ELSE <<Entry(Head(lines), r)>> \o ForLines(Tail(lines))

\* the lines a process may write
LineTexts ==
    { <<>>, <<" ">>, <<"x">>,
      <<"{", "T", "C3", "A9", "}">>, <<"{", "A", "}">>, <<"{", "R", "}">>,
      <<"{", "N", "}">> }

RECURSIVE JoinNL(_)
JoinNL(texts) ==
    IF Len(texts) = 1 THEN texts[1] ELSE texts[1] \o <<NL>> \o JoinNL(Tail(texts))

\* the stdout streams of the model: up to MaxLines lines separated by
\* newlines; the last one is the unterminated remainder (possibly empty)
Streams == {JoinNL(ts) : ts \in UNION {[1..m -> LineTexts] : m \in 1..MaxLines}}

Init ==
    /\ stream \in Streams
    /\ pos = 0
    /\ buffer = <<>>
    /\ dispatched = <<>>
    /\ handlerThrew = FALSE
    /\ lastBatch = 0
    /\ closed = FALSE
    /\ exited = NoExit
    /\ parsed = JNull /\ outcome = NoOutcome
    /\ ModalUnused

\* proc.stdout.on("data", ...) with a chunk of the next n bytes
StdoutData(n) ==
    /\ ~closed
    /\ pos + n <= Len(stream)
    /\ LET chunk == SubSeq(stream, pos + 1, pos + n)
           joined == buffer \o Utf8ToString(chunk)
           lines == Split(joined)
           entries == ForLines(Front(lines))
       IN /\ buffer' = Last(lines)
          /\ dispatched' = dispatched \o entries
          /\ handlerThrew' = (handlerThrew \/ \E i \in 1..Len(entries) : entries[i].threw)
          /\ lastBatch' = Len(entries)
    /\ pos' = pos + n
    /\ UNCHANGED <<stream, closed, exited, parseVars, modalVars>>

\* the exit codes 'close' is given: 0, a non-zero code, null (ended by a signal)
ExitCodes == {"0", "1", Null}

\* mutant: a non-zero exit code is reported through onError
onExitCodeReported(code) ==
    IF code # "0" /\ code # Null
    THEN <<Call("onError", <<JStr("exit code " \o code)>>, 0)>> ELSE <<>>

\* if (code !== 0 && code !== null) { } : the callbacks made for the exit code
onExitCode(code) == <<>>

\* proc.on("close", ...): after the process has ended and its pipes closed
Close(code) ==
    /\ ~closed
    /\ pos = Len(stream)
    /\ closed' = TRUE
    /\ IF Trim(buffer) # <<>>
       THEN LET r == ParseAndDispatch(buffer)
            IN /\ dispatched' = Append(dispatched, Entry(buffer, r))
               /\ handlerThrew' = (handlerThrew \/ r.threw)
               /\ exited' = [code |-> code,
                             calls |-> IF r.threw THEN <<>> ELSE onExitCode(code)]
       ELSE /\ UNCHANGED <<dispatched, handlerThrew>>
            /\ exited' = [code |-> code, calls |-> onExitCode(code)]
    /\ UNCHANGED <<stream, pos, buffer, lastBatch, parseVars, modalVars>>

Next ==
    \/ \E n \in 1..(Len(stream) - pos) : StdoutData(n)
    \/ \E code \in ExitCodes : Close(code)

Spec == Init /\ [][Next]_vars

----------------------------------------------------------------------------
(* Claims about the stdout pipeline (Spec).                                *)

\* the lines parseAndDispatch was given, in call order
LinesPassed == [i \in 1..Len(dispatched) |-> dispatched[i].line]

\* the callbacks invoked, in invocation order
CallsMade == Flatten([i \in 1..Len(dispatched) |-> dispatched[i].calls])

\* the text the process wrote, decoded as a whole
TextWritten == Utf8ToString(stream)

\* the records of a text: its split at newlines, where what follows the last
\* newline counts when it is not blank
Records(text) ==
    LET ls == Split(text) IN IF Trim(Last(ls)) = <<>> THEN Front(ls) ELSE ls

\* C1 (as claimed): once the process has closed, the lines passed to
\* parseAndDispatch are exactly the records of the text the process wrote,
\* whatever the chunking (stated for the runs in which no handler threw).
C1_LinesAreTheSplitOfTheStream ==
    (closed /\ ~handlerThrew) => LinesPassed = Records(TextWritten)

\* what identifies a callback for the order: which callback, for which block
Signature(calls) == [i \in 1..Len(calls) |-> <<calls[i].cb, calls[i].blk>>]

\* the callbacks of every record of the text written, record after record
RECURSIVE CallsOfLines(_)
CallsOfLines(lines) ==
    IF lines = <<>> THEN <<>>
    ELSE ParseAndDispatch(Head(lines)).calls \o CallsOfLines(Tail(lines))

\* C2: the callbacks are invoked in the byte order of the output: at every
\* moment the callbacks made so far are, in order, callbacks of the records
\* of the stream in stream order (none before one of an earlier line), the
\* callbacks of one record are in block order, and when the process has
\* closed without a handler exception they are all of them.
C2_CallbacksInStreamOrder ==
    /\ IsSubseq(Signature(CallsMade), Signature(CallsOfLines(Records(TextWritten))))
    /\ \A e \in 1..Len(dispatched) :
          \A i, j \in 1..Len(dispatched[e].calls) :
             i < j => dispatched[e].calls[i].blk < dispatched[e].calls[j].blk
    /\ (closed /\ ~handlerThrew) =>
          Signature(CallsMade) = Signature(CallsOfLines(Records(TextWritten)))

\* C2 witness: one chunk brought two lines, a result record after an
\* assistant record of two blocks, and both were dispatched
C2_Witness ==
    /\ lastBatch >= 2
    /\ Len(dispatched) >= 2
    /\ Len(dispatched[Len(dispatched) - 1].calls) = 2
    /\ Len(dispatched[Len(dispatched)].calls) = 1
    /\ dispatched[Len(dispatched)].calls[1].cb = "onDone"

\* a line that is empty, only white space, or no JSON text
BlankOrNotJson(line) == \A i \in 1..Len(line) : line[i] \in {" ", "x"}

\* C3: a line that is empty, white space or not JSON invokes no callback and
\* does not throw, and the lines after it are still processed (without a
\* handler exception every record of the stream has been dispatched at close).
C3_BadLinesAreSkipped ==
    /\ \A i \in 1..Len(dispatched) :
          BlankOrNotJson(dispatched[i].line) =>
             (~dispatched[i].threw /\ dispatched[i].calls = <<>>)
    /\ (closed /\ ~handlerThrew) => Len(dispatched) = Len(Records(TextWritten))

\* C3 witness: a line that is not JSON and, in the same chunk, a later line
\* whose callbacks were invoked
C3_Witness ==
    /\ lastBatch >= 2
    /\ Len(dispatched) >= 2
    /\ dispatched[Len(dispatched) - 1].line = <<"x">>
    /\ dispatched[Len(dispatched)].calls # <<>>

\* every callback of the run: those of the parseAndDispatch calls and those
\* the 'close' handler made for the exit code
CallbacksOfRun == CallsMade \o exited.calls

\* the process wrote a result record
WroteResult ==
    \E i \in 1..Len(Records(TextWritten)) :
        LET line == Records(TextWritten)[i] IN
        IsJsonText(line) /\ Get(JSONParse(line), "type") = JStr("result")

\* the 'close' handler runs in this step
CloseStep == ~closed /\ closed'

----------------------------------------------------------------------------
(* SpecParse: the dispatch applied to one parsed value.                    *)

InitParse ==
    /\ parsed \in JsonValues
    /\ outcome = NoOutcome
    /\ stream = <<>> /\ pos = 0 /\ buffer = <<>> /\ dispatched = <<>>
    /\ handlerThrew = FALSE /\ lastBatch = 0 /\ closed = FALSE /\ exited = NoExit
    /\ ModalUnused

\* parseAndDispatch(line, callbacks) for a line JSON.parse accepts
DispatchParsed ==
    /\ ~outcome.done
    /\ LET r == Dispatch(parsed)
       IN outcome' = [threw |-> r.threw, calls |-> r.calls, done |-> TRUE]
    /\ UNCHANGED <<parsed, runnerVars, modalVars>>

NextParse == DispatchParsed

SpecParse == InitParse /\ [][NextParse]_vars

----------------------------------------------------------------------------
(* Claims about the dispatch (SpecParse).                                  *)

\* C4 (as claimed): parseAndDispatch does not throw for a line that parses
\* as JSON, whatever the shape of the value.
C4_DispatchNeverThrows == outcome.done => ~outcome.threw

\* v is a record {"type": "result", "subtype": st, ...}
IsResultRecord(v, st) ==
    /\ v.t = "obj"
    /\ "type" \in DOMAIN v.v /\ v.v["type"] = JStr("result")
    /\ "subtype" \in DOMAIN v.v /\ v.v["subtype"] = JStr(st)

HasField(v, k) == k \in DOMAIN v.v
HasNonNullField(v, k) == k \in DOMAIN v.v /\ v.v[k].t # "null"

Field(v, k) == IF v.t = "obj" /\ k \in DOMAIN v.v THEN v.v[k] ELSE JUndef

\* C11: a record whose type is none of system, assistant, user, result
\* invokes no callback, and neither does a system record whose subtype is
\* not init nor a result record whose subtype is neither success nor error.
C11_UnknownRecordsInvokeNothing ==
    LET type == Field(parsed, "type")
        subtype == Field(parsed, "subtype")
        known == {JStr("system"), JStr("assistant"), JStr("user"), JStr("result")}
    IN (outcome.done
         /\ \/ type \notin known
            \/ type = JStr("system") /\ subtype # JStr("init")
            \/ type = JStr("result") /\ subtype \notin {JStr("success"), JStr("error")})
       => outcome.calls = <<>>

\* C11 witness: {"type":"system","subtype":"status","session_id":"abc"} has
\* been dispatched
C11_Witness ==
    /\ outcome.done /\ ~outcome.threw /\ outcome.calls = <<>>
    /\ parsed = MkObj([type |-> JStr("system"), subtype |-> JStr("status"),
                       session_id |-> JStr("abc")])

\* the blocks of a record whose message.content is a list
HasBlockList(v, type) ==
    /\ Field(v, "type") = JStr(type)
    /\ Field(Field(v, "message"), "content").t = "arr"
Blocks(v) == Field(Field(v, "message"), "content").v

\* what C12 says block i of an assistant record emits
AssistantEventsOf(block, i) ==
    IF Field(block, "type") = JStr("text")
    THEN IF Field(block, "text").t = "str" /\ Field(block, "text").v # ""
         THEN <<Call("onText", <<Field(block, "text")>>, i)>>
         ELSE <<>>
    ELSE IF Field(block, "type") = JStr("tool_use")
    THEN <<Call("onToolUse",
              <<JObj([id |-> Field(block, "id"), name |-> Field(block, "name"),
                      input |-> IF "input" \in DOMAIN block.v
                                THEN block.v["input"] ELSE EmptyObj])>>, i)>>
    ELSE <<>>

\* C12 (as claimed): for an assistant record the events emitted are exactly,
\* in block order, one onText per text block with non-empty text and one
\* onToolUse per tool_use block with its id, name and input ({} when
\* missing); every other block emits nothing.
C12_AssistantEventsPerBlock ==
    (outcome.done /\ HasBlockList(parsed, "assistant")) =>
        outcome.calls =
            Flatten([i \in 1..Len(Blocks(parsed)) |->
                        AssistantEventsOf(Blocks(parsed)[i], i)])

\* C13 (as claimed): every event delivered to onToolResult has a content
\* that is a string, whatever the block's content field is.
C13_ToolResultContentIsString ==
    outcome.done =>
        \A i \in 1..Len(outcome.calls) :
           outcome.calls[i].cb = "onToolResult" =>
              outcome.calls[i].args[1].v["content"].t = "str"

\* the tool names of a tools field that is a list
NamesOf(tools) == JArr([i \in 1..Len(tools.v) |-> Field(tools.v[i], "name")])

\* C14 (as claimed): a system record with subtype init invokes onSystemInit
\* exactly once, with session_id and the list of the tool names in order,
\* the empty list when the tools field is absent.
C14_InitCallsOnSystemInitOnce ==
    (outcome.done /\ Field(parsed, "type") = JStr("system")
                  /\ Field(parsed, "subtype") = JStr("init")) =>
        LET tools == Field(parsed, "tools") IN
        /\ Len(outcome.calls) = 1
        /\ outcome.calls[1].cb = "onSystemInit"
        /\ outcome.calls[1].args[1] = Field(parsed, "session_id")
        /\ tools.t = "undefined" => outcome.calls[1].args[2] = JArr(<<>>)
        /\ tools.t = "arr" => outcome.calls[1].args[2] = NamesOf(tools)

----------------------------------------------------------------------------
(* SpecModal: one modal instance, its user, the processes it started and   *)
(* the storage collaborator. A step is one handler run to completion: a    *)
(* user event, one callback of a run, the continuation of an await.        *)

\* what the user may have typed in the textarea
PromptValues == { <<>>, <<"p", " ">> }
ToolIds == {"t1", "t9"}
\* the text and the session id the process of run r reports
TextOf(r) == << <<"a">>, <<"b">>, <<"c">>, <<"d">> >>[r]
SessionOf(r) == <<"s1", "s2", "s3", "s4">>[r]
\* the session_id of a system/init record of run r: its session id, or empty
SessionIdsOf(r) == {SessionOf(r), ""}
\* what onDone is given for a result/success record: num_turns, cost_usd
Reported == [turns |-> 1, costUsd |-> 2]

EventKinds ==
    {"text", "toolUse", "toolResult", "systemInit", "done", "resultError", "stderr"}

\* the run started by runClaude: the prompt and mode its callbacks were
\* made for, the sessionId option and the arguments of spawn, the process (running: spawned and alive;
\* killed: the modal has sent SIGTERM, 'close' has not been emitted;
\* closed: 'close' has been emitted; failed: spawn threw), and ghosts:
\* whether a TurnResult of it has been dispatched, whether the modal killed
\* it before that, whether its onDone appended a turn, the ids of its
\* ToolUse events that its ToolResult events have not matched yet
Run(prompt, mode, sessionId, state) ==
    [prompt |-> prompt, mode |-> mode, resume |-> sessionId, state |-> state,
     args |-> runClaudeArgs(prompt, sessionId),
     hasResult |-> FALSE, killedEarly |-> FALSE, appended |-> FALSE, pending |-> {}]

\* runner.kill(): SIGTERM to a live process, nothing otherwise
Kill(ps, r) ==
    IF r # NoRunner /\ ps[r].state = "running"
    THEN [ps EXCEPT ![r].state = "killed",
                    ![r].killedEarly = ~ps[r].hasResult]
    ELSE ps

\* a storage.save / storage.clear call in flight: it awaits loadData, then
\* builds the data and awaits saveData. `turns` is the array the caller
\* passed: until the data is built (alias) it is this.persistedTurns itself
\* and sees later pushes, unless the modal has replaced its array
SaveOp(sessionId, turns) ==
    [op |-> "save", phase |-> "load", sessionId |-> sessionId, turns |-> turns,
     alias |-> TRUE]
ClearOp ==
    [op |-> "clear", phase |-> "load", sessionId |-> Null, turns |-> <<>>,
     alias |-> FALSE]

\* this.persistedTurns = <another array>
Unalias(ops) == [i \in 1..Len(ops) |-> [ops[i] EXCEPT !.alias = FALSE]]
\* this.persistedTurns.push(...)
Pushed(ops, turns) ==
    [i \in 1..Len(ops) |-> IF ops[i].alias THEN [ops[i] EXCEPT !.turns = turns]
                           ELSE ops[i]]

RemoveAt(seq, i) == SubSeq(seq, 1, i - 1) \o SubSeq(seq, i + 1, Len(seq))

InitModal ==
    /\ modal = ModalOpened
    /\ procs = <<>>
    /\ stored = NoChat
    /\ storageOps = <<>>
    /\ restores = 0
    /\ lastCallback = NoCallback
    /\ turnEvents = <<>> /\ launched = NoLaunch /\ plugin = NoPlugin
    /\ stream = <<>> /\ pos = 0 /\ buffer = <<>> /\ dispatched = <<>>
    /\ handlerThrew = FALSE /\ lastBatch = 0 /\ closed = FALSE /\ exited = NoExit
    /\ parsed = JNull /\ outcome = NoOutcome

\* mutant: handleRun does not look at the status
HandleRunWhileRunning(typed, launch) ==
    /\ modal.isOpen
    /\ modal.status # "running" \/ ~modal.promptDisabled
    /\ modal.promptDisabled => typed = modal.promptValue
    /\ LET m == [modal EXCEPT !.promptValue = typed]
           prompt == Trim(typed)
           r == Len(procs) + 1
       IN IF prompt = <<>>
          THEN launch = "ok" /\ modal' = m /\ UNCHANGED procs
          ELSE /\ Len(procs) < MaxRuns
               /\ IF m.mode = "chat"
                  THEN /\ procs' = Append(procs,
                              Run(prompt, "chat", OrUndefined(m.sessionId),
                                  IF launch = "ok" THEN "running" ELSE "failed"))
                       /\ modal' = IF launch = "ok" THEN runChat(m, r)
                                   ELSE chatOnError(runChat(m, r))
                  ELSE /\ procs' = Append(procs,
                              Run(prompt, "quick", Undefined,
                                  IF launch = "ok" THEN "running" ELSE "failed"))
                       /\ modal' = IF launch = "ok" THEN runQuick(m, r)
                                   ELSE quickOnError(runQuick(m, r))
    /\ UNCHANGED <<stored, storageOps, restores, lastCallback, turnEvents, launched, plugin, runnerVars, parseVars>>

\* handleRun, from the Run button (disabled while running) or Ctrl+Enter in
\* the textarea (when it is enabled), after the user has left `typed` in the
\* textarea (when it is enabled); launch tells whether spawn throws
HandleRun(typed, launch) ==
    /\ modal.isOpen
    /\ modal.status # "running" \/ ~modal.promptDisabled
    /\ modal.promptDisabled => typed = modal.promptValue
    /\ LET m == [modal EXCEPT !.promptValue = typed]
           prompt == Trim(typed)
           r == Len(procs) + 1
       IN IF m.status = "running" \/ prompt = <<>>
          THEN launch = "ok" /\ modal' = m /\ UNCHANGED procs
          ELSE /\ Len(procs) < MaxRuns
               /\ IF m.mode = "chat"
                  THEN /\ procs' = Append(procs,
                              Run(prompt, "chat", OrUndefined(m.sessionId),
                                  IF launch = "ok" THEN "running" ELSE "failed"))
                       /\ modal' = IF launch = "ok" THEN runChat(m, r)
                                   ELSE chatOnError(runChat(m, r))
                  ELSE /\ procs' = Append(procs,
                              Run(prompt, "quick", Undefined,
                                  IF launch = "ok" THEN "running" ELSE "failed"))
                       /\ modal' = IF launch = "ok" THEN runQuick(m, r)
                                   ELSE quickOnError(runQuick(m, r))
    /\ UNCHANGED <<stored, storageOps, restores, lastCallback, turnEvents, launched, plugin, runnerVars, parseVars>>

\* handleCancel, from the Cancel/Stop button or Escape in the textarea
HandleCancel ==
    /\ modal.isOpen
    /\ procs' = Kill(procs, modal.runner)
    /\ modal' = handleCancel(modal)
    /\ UNCHANGED <<stored, storageOps, restores, lastCallback, turnEvents, launched, plugin, runnerVars, parseVars>>

\* handleClear, from the Clear button (shown in chat mode only)
HandleClear ==
    /\ modal.isOpen /\ modal.mode = "chat"
    /\ Len(storageOps) < MaxOps
    /\ procs' = Kill(procs, modal.runner)
    /\ modal' = handleClear(modal)
    /\ storageOps' = Append(Unalias(storageOps), ClearOp)
    /\ UNCHANGED <<stored, restores, lastCallback, turnEvents, launched, plugin, runnerVars, parseVars>>

\* switchMode, from the mode tabs
SwitchMode(newMode) ==
    /\ modal.isOpen
    /\ newMode # modal.mode
    /\ procs' = Kill(procs, modal.runner)
    /\ modal' = switchMode(modal, newMode)
    /\ IF newMode = "chat"
       THEN /\ restores < MaxRestores
            /\ restores' = restores + 1
            /\ UNCHANGED storageOps
       ELSE /\ storageOps' = Unalias(storageOps)
            /\ UNCHANGED restores
    /\ UNCHANGED <<stored, lastCallback, turnEvents, launched, plugin, runnerVars, parseVars>>

\* the modal is closed other than by handleCancel: onClose
CloseModal ==
    /\ modal.isOpen
    /\ procs' = Kill(procs, modal.runner)
    /\ modal' = onClose(modal)
    /\ UNCHANGED <<stored, storageOps, restores, lastCallback, turnEvents, launched, plugin, runnerVars, parseVars>>

\* storage.load() resolves and restoreConversation goes on
RestoreLoaded ==
    /\ restores > 0
    /\ restores' = restores - 1
    /\ modal' = restoreConversation(modal, storageLoad(stored))
    /\ storageOps' = Unalias(storageOps)
    /\ UNCHANGED <<procs, stored, lastCallback, turnEvents, launched, plugin, runnerVars, parseVars>>

\* loadData of a save or clear resolves: the data to write is built
StorageOpLoaded(i) ==
    /\ i \in 1..Len(storageOps)
    /\ storageOps[i].phase = "load"
    /\ storageOps' = [storageOps EXCEPT ![i].phase = "write", ![i].alias = FALSE]
    /\ UNCHANGED <<modal, procs, stored, restores, lastCallback, turnEvents, launched, plugin, runnerVars, parseVars>>

\* saveData of a save or clear takes effect
StorageOpWritten(i) ==
    /\ i \in 1..Len(storageOps)
    /\ storageOps[i].phase = "write"
    /\ stored' = IF storageOps[i].op = "save"
                 THEN Chat(storageOps[i].sessionId, storageOps[i].turns)
                 ELSE NoChat
    /\ storageOps' = RemoveAt(storageOps, i)
    /\ UNCHANGED <<modal, procs, restores, lastCallback, turnEvents, launched, plugin, runnerVars, parseVars>>

\* the modal after the callback of run r for an event of the given kind; id
\* is the tool id of a tool event, the session id of a SystemInit
AfterCallback(m, run, r, kind, id) ==
    CASE kind = "text" -> handleText(m, TextOf(r))
      [] kind = "toolUse" -> handleToolUse(m, id)
      [] kind = "toolResult" -> handleToolResult(m, id)
      [] kind = "systemInit" ->
            IF run.mode = "chat" THEN chatOnSystemInit(m, id) ELSE m
      [] kind = "done" ->
            IF run.mode = "chat"
            THEN chatOnDone(m, run.prompt, Reported.turns, Reported.costUsd)
            ELSE quickOnDone(m, Reported.turns, Reported.costUsd)
      [] kind \in {"resultError", "stderr"} ->
            IF run.mode = "chat" THEN chatOnError(m) ELSE quickOnError(m)

\* one callback of run r, id being the tool id or session id of the event: a
\* record of its stdout dispatched (text, toolUse,
\* toolResult, systemInit, done, resultError) or a stderr chunk that matches
\* the heuristic (stderr). A killed process delivers what it wrote until
\* 'close'.
ProcEvent(r, kind, id) ==
    /\ r \in 1..Len(procs)
    /\ procs[r].state \in {"running", "killed"}
    /\ lastCallback.n < MaxEvents
    /\ kind \notin {"toolUse", "toolResult", "systemInit"} => id = "none"
    /\ kind = "systemInit" => id \in SessionIdsOf(r)
    /\ kind \in {"toolUse", "toolResult"} => id \in ToolIds
    /\ LET chatDone == kind = "done" /\ procs[r].mode = "chat" IN
       /\ modal' = AfterCallback(modal, procs[r], r, kind, id)
       /\ lastCallback' = [n |-> lastCallback.n + 1, run |-> r, kind |-> kind,
                           id |-> id]
       /\ procs' = [procs EXCEPT
                       ![r].hasResult = @ \/ kind \in {"done", "resultError"},
                       ![r].appended = @ \/ chatDone,
                       ![r].pending = IF kind = "toolUse" THEN @ \cup {id}
                                      ELSE IF kind = "toolResult" THEN @ \ {id}
                                      ELSE @]
       /\ IF chatDone
          THEN /\ Len(storageOps) < MaxOps
               /\ storageOps' = Append(Pushed(storageOps, modal'.persistedTurns),
                                       SaveOp(modal.sessionId, modal'.persistedTurns))
          ELSE UNCHANGED storageOps
    /\ UNCHANGED <<stored, restores, turnEvents, launched, plugin, runnerVars, parseVars>>

\* the process of run r has ended and its pipes are closed
ProcClose(r) ==
    /\ r \in 1..Len(procs)
    /\ procs[r].state \in {"running", "killed"}
    /\ procs' = [procs EXCEPT ![r].state = "closed"]
    /\ UNCHANGED <<modal, stored, storageOps, restores, lastCallback, turnEvents, launched, plugin, runnerVars, parseVars>>

NextModal ==
    \/ \E typed \in PromptValues, launch \in {"ok", "throws"} : HandleRun(typed, launch)
    \/ HandleCancel
    \/ HandleClear
    \/ \E newMode \in {"quick", "chat"} : SwitchMode(newMode)
    \/ CloseModal
    \/ RestoreLoaded
    \/ \E i \in 1..MaxOps : StorageOpLoaded(i)
    \/ \E i \in 1..MaxOps : StorageOpWritten(i)
    \/ \E r \in 1..MaxRuns :
          \E kind \in EventKinds, id \in ToolIds \cup SessionIdsOf(r) \cup {"none"} :
             ProcEvent(r, kind, id)
    \/ \E r \in 1..MaxRuns : ProcClose(r)

SpecModal == InitModal /\ [][NextModal]_vars

----------------------------------------------------------------------------
(* Claims about the modal and its runs (SpecModal).                        *)

\* C5 (as claimed): a chat run that the modal killed before its TurnResult
\* was dispatched never has a turn appended to persistedTurns and handed to
\* storage.save, whatever the killed process still delivers.
C5_KilledRunAppendsNoTurn ==
    \A r \in 1..Len(procs) :
       (procs[r].mode = "chat" /\ procs[r].killedEarly) => ~procs[r].appended

\* the processes that were started and have neither exited nor been killed
\* by the modal; a process whose TurnResult has been dispatched is about to
\* exit and is left out
ActiveRuns ==
    {r \in 1..Len(procs) : procs[r].state = "running" /\ ~procs[r].hasResult}

\* C6 (as claimed): at most one process the modal started is active, even
\* when the processes that have delivered their result are not counted.
C6_AtMostOneActiveProcess == Cardinality(ActiveRuns) <= 1

\* this step is the callback of a chat run for a TurnResult of the given
\* kind ("done": success, "resultError": error)
ChatResultStep(kind) ==
    /\ lastCallback'.n = lastCallback.n + 1
    /\ lastCallback'.kind = kind
    /\ procs[lastCallback'.run].mode = "chat"

BuffersReset(m) ==
    /\ m.currentTurnMarkdown = <<>> /\ m.currentTextContent = <<>>
    /\ ~m.currentTextBlock /\ ~m.currentTurnClaudeEl

AtTurnResult == lastCallback.kind \in {"done", "resultError"}

\* this step is a callback of the given kind
CallbackStep(kind) ==
    lastCallback'.n = lastCallback.n + 1 /\ lastCallback'.kind = kind

\* the tracker steps of C15: a ToolUse with id t adds an entry for t, a
\* ToolResult with id t leaves no entry for t and no other entry is touched,
\* and a ToolResult without an entry changes nothing in the modal
ToolTrackerSteps ==
    [][/\ CallbackStep("toolUse") =>
            modal'.toolCards = modal.toolCards \cup {lastCallback'.id}
       /\ CallbackStep("toolResult") =>
            /\ modal'.toolCards = modal.toolCards \ {lastCallback'.id}
            /\ lastCallback'.id \notin modal.toolCards => modal' = modal]_vars

\* C15 (as claimed): at the TurnResult of a run in which every ToolUse was
\* followed by its matching ToolResult, the tracker (toolCards) is empty.
C15_TrackerEmptyAtTurnResult ==
    (AtTurnResult /\ procs[lastCallback.run].pending = {}) => modal.toolCards = {}

\* C17 (as claimed): the session id of the modal changes value only when a
\* SystemInit event is handled.
C17_OnlySystemInitAssigns ==
    [][modal'.sessionId # modal.sessionId => CallbackStep("systemInit")]_vars

\* C17 (amended): the session id of the modal changes value only when a
\* chat run's SystemInit is handled (to the event's session id), when
\* restoreConversation has loaded the stored conversation (to the stored
\* id), when the mode is switched to quick or when the chat is cleared (to
\* null); cancel, close, done, error and every other callback leave it.
C17_SessionIdAssignments ==
    [][modal'.sessionId # modal.sessionId =>
          \/ /\ CallbackStep("systemInit")
             /\ procs[lastCallback'.run].mode = "chat"
             /\ modal'.sessionId = lastCallback'.id
          \/ /\ restores' = restores - 1
             /\ modal'.sessionId = stored.sessionId
          \/ /\ modal.mode = "chat" /\ modal'.mode = "quick"
             /\ modal'.sessionId = Null
          \/ /\ Len(storageOps') = Len(storageOps) + 1
             /\ Last(storageOps').op = "clear"
             /\ modal'.sessionId = Null]_vars

\* C17 witness: a chat run's SystemInit set the session id, the user
\* cancelled the run, and the id is still the one of the SystemInit
C17_Witness ==
    /\ Len(procs) = 1 /\ procs[1].mode = "chat" /\ procs[1].killedEarly
    /\ lastCallback = [n |-> 1, run |-> 1, kind |-> "systemInit", id |-> "s1"]
    /\ modal.status = "cancelled"
    /\ modal.sessionId = "s1"

\* this step is handleRun starting a run
RunStarts == Len(procs') = Len(procs) + 1

C27_SavedTurnsExtendTheStored ==
    [][(/\ ChatResultStep("done")
        /\ procs[lastCallback'.run].state = "running"
        /\ ~procs[lastCallback'.run].hasResult
        /\ storageOps = <<>>) =>
          Last(storageOps').turns =
              Append(stored.turns,
                     ChatTurnData(procs[lastCallback'.run].prompt,
                                  modal.currentTurnMarkdown))]_vars

\* C29 (as claimed): once the modal is in quick mode with its session id
\* and turn list reset, no callback of a run changes them or starts a
\* storage.save, whatever the killed chat process still delivers.
C29_QuickModeKeepsChatReset ==
    [][(/\ modal.mode = "quick" /\ modal'.mode = "quick"
        /\ modal.sessionId = Null /\ modal.persistedTurns = <<>>
        /\ lastCallback' # lastCallback) =>
          /\ modal'.sessionId = Null
          /\ modal'.persistedTurns = <<>>
          /\ storageOps' = storageOps]_vars

\* C30 (as claimed): once kill has returned, none of the callbacks of the
\* killed run is invoked: every callback is one of a run that the modal has
\* not killed.
C30_NoCallbackAfterKill ==
    [][lastCallback' # lastCallback =>
          procs[lastCallback'.run].state # "killed"]_vars

\* the first half of C38: a chat run started while the restore of the
\* latest switch to chat mode is pending, with a session id in the storage
\* and no storage call in flight, is launched with the stored id as
\* its resume token
RunResumesTheStored ==
    (/\ RunStarts /\ modal.mode = "chat"
     /\ restores > 0 /\ storageOps = <<>>
     /\ stored.sessionId \notin {Null, ""}) =>
        /\ Last(procs').resume = stored.sessionId
        /\ SubSeq(Last(procs').args, Len(Last(procs').args) - 1,
                  Len(Last(procs').args)) = <<"--resume", stored.sessionId>>

\* the second half of C38: when restoreConversation goes on after its
\* storage.load while the run in progress has reported its session id in a
\* SystemInit, the session id of the modal stays the reported one
RestoreKeepsTheReported ==
    (/\ restores' = restores - 1
     /\ modal.mode = "chat" /\ modal.status = "running"
     /\ modal.runner # NoRunner
     /\ lastCallback.kind = "systemInit" /\ lastCallback.run = modal.runner
     /\ modal.sessionId = lastCallback.id
     /\ modal.sessionId \notin {Null, ""}) =>
        modal'.sessionId = modal.sessionId

\* C38 (as claimed): if the storage holds a session id when the user
\* switches to chat mode, the next chat run is launched with that id as its
\* resume token, and a session id received from SystemInit during a run is
\* not overwritten by the result of the asynchronous restore, however the
\* completion of storage.load is ordered with handleRun and the run's events.
C38_RestoreRaceFree ==
    [][RunResumesTheStored /\ RestoreKeepsTheReported]_vars

\* a is a prefix of b
IsPrefix(a, b) == Len(a) <= Len(b) /\ SubSeq(b, 1, Len(a)) = a

\* this step is a callback of the run the modal is running: a chat run that
\* is the modal's runner, alive, and has not delivered its TurnResult
ActiveChatTurnStep ==
    /\ lastCallback'.n = lastCallback.n + 1
    /\ modal.mode = "chat" /\ modal.status = "running"
    /\ modal.runner = lastCallback'.run
    /\ procs[lastCallback'.run].mode = "chat"
    /\ procs[lastCallback'.run].state = "running"
    /\ ~procs[lastCallback'.run].hasResult

\* the first half of C31: an event of the active chat turn before its
\* TurnResult leaves the transcript a prefix of the new transcript
TranscriptGrowsOnEvents ==
    (/\ ActiveChatTurnStep
     /\ lastCallback'.kind \in {"text", "toolUse", "toolResult", "stderr"}) =>
        IsPrefix(modal.currentTurnMarkdown, modal'.currentTurnMarkdown)

\* the second half of C31: a turn that is in the session keeps its prompt
\* and its transcript for as long as it is in the session
AppendedTurnsKept ==
    \A i \in 1..Len(modal.persistedTurns) :
       i <= Len(modal'.persistedTurns) =>
           modal'.persistedTurns[i] = modal.persistedTurns[i]

\* C31 (as claimed): during an active chat turn the transcript only grows:
\* every text, tool use, tool result and stderr-heuristic error event
\* between the start of the run and its TurnResult leaves the previous
\* transcript a prefix of the new one, and a turn appended to the session
\* never changes.
C31_TranscriptOnlyGrows ==
    [][TranscriptGrowsOnEvents /\ AppendedTurnsKept]_vars

----------------------------------------------------------------------------
(* SpecTurn: one chat run from runChat to its TurnResult, with no user     *)
(* action and no other run: the events of the run go through the          *)
(* callbacks of runChat in arrival order.                                  *)

\* the most events of the run before its TurnResult
MaxTurnEvents == 4

\* the text segments and the session id the process may report
TurnTexts == { <<"a">>, <<"b">> }
TurnSessionIds == {"abc"}

\* the events a run delivers: kind, and the text, tool id or session id
TurnEvent(kind, arg) == [kind |-> kind, arg |-> arg]
TurnEventsOf ==
    {TurnEvent("text", t) : t \in TurnTexts}
    \cup {TurnEvent(k, id) : k \in {"toolUse", "toolResult"}, id \in ToolIds}
    \cup {TurnEvent("systemInit", sid) : sid \in TurnSessionIds}
    \cup {TurnEvent("done", "none")}

\* the modal in chat mode with an empty conversation, after handleRun has
\* started the run of the prompt "p"
InitTurn ==
    /\ modal = runChat(restoreConversation(switchMode(ModalOpened, "chat"),
                                           storageLoad(NoChat)), 1)
    /\ procs = <<Run(<<"p">>, "chat", Undefined, "running")>>
    /\ stored = NoChat /\ storageOps = <<>> /\ restores = 0
    /\ lastCallback = NoCallback
    /\ turnEvents = <<>> /\ launched = NoLaunch /\ plugin = NoPlugin
    /\ stream = <<>> /\ pos = 0 /\ buffer = <<>> /\ dispatched = <<>>
    /\ handlerThrew = FALSE /\ lastBatch = 0 /\ closed = FALSE /\ exited = NoExit
    /\ parsed = JNull /\ outcome = NoOutcome

\* the callback of runChat for one event of the run
TurnCallback(e) ==
    /\ ~procs[1].hasResult
    /\ e.kind # "done" => Len(turnEvents) < MaxTurnEvents
    /\ modal' = CASE e.kind = "text" -> handleText(modal, e.arg)
                  [] e.kind = "toolUse" -> handleToolUse(modal, e.arg)
                  [] e.kind = "toolResult" -> handleToolResult(modal, e.arg)
                  [] e.kind = "systemInit" -> chatOnSystemInit(modal, e.arg)
                  [] e.kind = "done" ->
                        chatOnDone(modal, procs[1].prompt, Reported.turns,
                                   Reported.costUsd)
    /\ turnEvents' = Append(turnEvents, e)
    /\ lastCallback' = [n |-> lastCallback.n + 1, run |-> 1, kind |-> e.kind,
                        id |-> IF e.kind \in {"toolUse", "toolResult"} THEN e.arg
                               ELSE "none"]
    /\ procs' = [procs EXCEPT
                    ![1].hasResult = e.kind = "done",
                    ![1].appended = e.kind = "done",
                    ![1].pending = IF e.kind = "toolUse" THEN @ \cup {e.arg}
                                   ELSE IF e.kind = "toolResult" THEN @ \ {e.arg}
                                   ELSE @]
    /\ storageOps' = IF e.kind = "done"
                     THEN Append(Pushed(storageOps, modal'.persistedTurns),
                                 SaveOp(modal.sessionId, modal'.persistedTurns))
                     ELSE storageOps
    /\ UNCHANGED <<stored, restores, launched, plugin, runnerVars, parseVars>>

NextTurn == \E e \in TurnEventsOf : TurnCallback(e)

SpecTurn == InitTurn /\ [][NextTurn]_vars

----------------------------------------------------------------------------
(* Claims about one chat run (SpecTurn).                                   *)

\* the transcript C16 describes for a sequence of events: the text segments
\* in arrival order, with a separator where a tool invocation falls between
\* two text segments; sofar is the transcript of the events before, tool
\* tells whether a tool invocation came after its last text segment
RECURSIVE SegmentsJoined(_, _, _)
SegmentsJoined(events, sofar, tool) ==
    IF events = <<>> THEN sofar
    ELSE LET e == Head(events) IN
         IF e.kind = "text"
         THEN SegmentsJoined(Tail(events),
                  (IF sofar # <<>> /\ tool THEN sofar \o Separator ELSE sofar)
                      \o e.arg,
                  FALSE)
         ELSE SegmentsJoined(Tail(events), sofar, tool \/ e.kind = "toolUse")

\* the run delivered SystemInit first, then text segments and tool events,
\* then its success result
InitThenEventsThenDone ==
    /\ Len(turnEvents) >= 2
    /\ turnEvents[1].kind = "systemInit"
    /\ Last(turnEvents).kind = "done"
    /\ \A i \in 2..(Len(turnEvents) - 1) : turnEvents[i].kind # "systemInit"

\* C16 (as claimed): for a chat run that receives SystemInit(s), then text
\* segments and tool invocations, then a success result, the finalized
\* transcript is the text segments in arrival order with a separator only
\* where a tool invocation falls between two text segments (so it neither
\* begins nor ends with a separator), and the session id is s.
C16_TranscriptIsSegmentsJoined ==
    InitThenEventsThenDone =>
        /\ Len(modal.persistedTurns) = 1
        /\ modal.persistedTurns[1].claudeMarkdown =
              SegmentsJoined(turnEvents, <<>>, FALSE)
        /\ modal.sessionId = turnEvents[1].arg

\* what C32 says of a ToolUse step of the active chat turn, but for the
\* transcript: the live text segment is closed, so that a text that follows
\* starts a new segment, and the tool call is in the tracker
SegmentClosedAndToolTracked ==
    /\ (ActiveChatTurnStep /\ CallbackStep("toolUse")) =>
          /\ ~modal'.currentTextBlock
          /\ modal'.currentTextContent = <<>>
          /\ modal'.toolCards = modal.toolCards \cup {lastCallback'.id}
    /\ (/\ ActiveChatTurnStep /\ CallbackStep("text")
        /\ turnEvents # <<>> /\ Last(turnEvents).kind = "toolUse") =>
          /\ modal'.currentTextBlock
          /\ modal'.currentTextContent = Last(turnEvents').arg

\* C32 (as claimed): on every ToolUse event of an active chat turn a
\* separator is appended to the transcript exactly when the transcript does
\* not already end with one, the live text segment is closed so that the
\* next text starts a new segment, and the tool call is registered in the
\* tracker.
C32_SeparatorUnlessPresent ==
    [][/\ SegmentClosedAndToolTracked
       /\ (ActiveChatTurnStep /\ CallbackStep("toolUse")) =>
             modal'.currentTurnMarkdown =
                 IF ~EndsWith(modal.currentTurnMarkdown, Separator)
                 THEN modal.currentTurnMarkdown \o Separator
                 ELSE modal.currentTurnMarkdown]_vars

\* C32 (amended): on every ToolUse event of an active chat turn a separator
\* is appended to the transcript exactly when the transcript is not empty
\* and does not already end with one (an empty transcript stays empty, and
\* consecutive ToolUse events add at most one separator), the live text
\* segment is closed so that the next text starts a new segment, and the
\* tool call is registered in the tracker.
C32_SeparatorUnlessEmptyOrPresent ==
    [][/\ SegmentClosedAndToolTracked
       /\ (ActiveChatTurnStep /\ CallbackStep("toolUse")) =>
             modal'.currentTurnMarkdown =
                 IF /\ modal.currentTurnMarkdown # <<>>
                    /\ ~EndsWith(modal.currentTurnMarkdown, Separator)
                 THEN modal.currentTurnMarkdown \o Separator
                 ELSE modal.currentTurnMarkdown]_vars

\* C32 witness: a ToolUse on the empty transcript, the text "a", a ToolUse
\* and another ToolUse: one separator after "a", both tools in the tracker,
\* no live text segment
C32_Witness ==
    /\ turnEvents = <<TurnEvent("toolUse", "t1"), TurnEvent("text", <<"a">>),
                      TurnEvent("toolUse", "t9"), TurnEvent("toolUse", "t1")>>
    /\ modal.currentTurnMarkdown = <<"a">> \o Separator
    /\ modal.toolCards = {"t1", "t9"}
    /\ ~modal.currentTextBlock /\ modal.currentTextContent = <<>>
    /\ modal.status = "running"

\* C33: a ToolResult event leaves the transcript, the live text segment,
\* the session id, the turn list and the status unchanged, and starts no
\* storage call; of the modal it only removes the tracker entry of the
\* event's tool id, if there is one.
C33_ToolResultFrame ==
    [][CallbackStep("toolResult") =>
          /\ modal'.currentTurnMarkdown = modal.currentTurnMarkdown
          /\ modal'.currentTextBlock = modal.currentTextBlock
          /\ modal'.currentTextContent = modal.currentTextContent
          /\ modal'.sessionId = modal.sessionId
          /\ modal'.persistedTurns = modal.persistedTurns
          /\ modal'.status = modal.status
          /\ modal' = [modal EXCEPT !.toolCards = modal.toolCards \ {lastCallback'.id}]
          /\ storageOps' = storageOps /\ stored' = stored]_vars

\* C33 witness: a ToolUse, the text "a", then the ToolResult of the tool:
\* the tracker is empty, the transcript and the live segment still hold "a"
C33_Witness ==
    /\ turnEvents = <<TurnEvent("toolUse", "t1"), TurnEvent("text", <<"a">>),
                      TurnEvent("toolResult", "t1")>>
    /\ modal.toolCards = {}
    /\ modal.currentTurnMarkdown = <<"a">>
    /\ modal.currentTextBlock /\ modal.currentTextContent = <<"a">>
    /\ modal.status = "running"

----------------------------------------------------------------------------
(* SpecLaunch: one call of runClaude, from the call to the end of the      *)
(* process, and the calls of kill on the runner it returned.               *)

\* the most calls of kill on one runner
MaxKills == 3

\* what spawn does: it starts the process (ok), it throws an exception with
\* the given code (throws), or it returns a ChildProcess that later emits
\* 'error' with the given code because no process could be started (emits)
SpawnOutcomes ==
    {[how |-> "ok", code |-> "none"]}
    \cup {[how |-> h, code |-> c] : h \in {"throws", "emits"}, c \in {"ENOENT", "EACCES"}}

\* the sessionId option of the call
SessionIdOptions == {Undefined, "", "abc"}

NotFoundMessage ==
    "Claude binary not found at <claudeBinaryPath>. Please check the binary path in Claudian settings."

\* the message of the catch around spawn
SpawnFailureMessage(code) ==
    IF code = "ENOENT" THEN NotFoundMessage ELSE "Failed to start Claude: <message>"

\* the message of the 'error' listener
ProcErrorMessage(code) ==
    IF code = "ENOENT" THEN NotFoundMessage ELSE "Process error: <message>"

\* one onError call: the message, and (ghosts) what it reports and whether
\* runClaude had already returned a runner backed by a ChildProcess
ErrorReport(message, cause, handle) ==
    [message |-> message, cause |-> cause, afterHandle |-> handle = "proc"]

\* mutant: kill without the try/catch around proc.kill
runnerKillNoCatch(handle, proc, killed) ==
    IF handle = "noop" THEN [raised |-> FALSE, proc |-> proc, reported |-> FALSE]
    ELSE [raised |-> killed = "throws",
          proc |-> IF killed = "sent" /\ proc = "alive" THEN "signalled" ELSE proc,
          reported |-> killed = "emits"]

\* runner.kill() of the runner runClaude returned: nothing on the runner of
\* a failed spawn, else proc.kill("SIGTERM") inside try/catch; killed is
\* what proc.kill does: the signal is sent, it is not sent (the process is
\* gone), proc.kill throws, or it emits 'error' (the signal could not be
\* delivered), which runs the 'error' listener and so onError
runnerKill(handle, proc, killed) ==
    IF handle = "noop" THEN [raised |-> FALSE, proc |-> proc, reported |-> FALSE]
    ELSE [raised |-> FALSE,
          proc |-> IF killed = "sent" /\ proc = "alive" THEN "signalled" ELSE proc,
          reported |-> killed = "emits"]

InitLaunch ==
    /\ \E sp \in SpawnOutcomes, sid \in SessionIdOptions :
          launched = [phase |-> "called", spawn |-> sp, sessionId |-> sid,
                      args |-> <<>>, handle |-> "none", proc |-> "none",
                      errors |-> <<>>, errorEmitted |-> FALSE,
                      kills |-> 0, lastKill |-> "none", killRaised |-> FALSE]
    /\ modal = ModalOpened /\ procs = <<>> /\ stored = NoChat
    /\ storageOps = <<>> /\ restores = 0 /\ lastCallback = NoCallback
    /\ turnEvents = <<>> /\ plugin = NoPlugin
    /\ stream = <<>> /\ pos = 0 /\ buffer = <<>> /\ dispatched = <<>>
    /\ handlerThrew = FALSE /\ lastBatch = 0 /\ closed = FALSE /\ exited = NoExit
    /\ parsed = JNull /\ outcome = NoOutcome

LaunchUnchanged ==
    UNCHANGED <<modal, procs, stored, storageOps, restores, lastCallback, turnEvents,
                plugin, runnerVars, parseVars>>

\* runClaude from its first line to its return
RunClaude ==
    /\ launched.phase = "called"
    /\ launched' =
          [launched EXCEPT
              !.phase = "returned",
              !.args = runClaudeArgs(<<"p">>, launched.sessionId),
              !.handle = IF launched.spawn.how = "throws" THEN "noop" ELSE "proc",
              !.proc = CASE launched.spawn.how = "ok" -> "alive"
                         [] launched.spawn.how = "emits" -> "unspawned"
                         [] launched.spawn.how = "throws" -> "none",
              !.errors = IF launched.spawn.how = "throws"
                         THEN <<ErrorReport(SpawnFailureMessage(launched.spawn.code),
                                         "launch", launched.handle)>>
                         ELSE <<>>]
    /\ LaunchUnchanged

\* proc.on("error", ...) for a ChildProcess that could not be started
ProcErrorEvent ==
    /\ launched.phase = "returned"
    /\ launched.proc = "unspawned" /\ ~launched.errorEmitted
    /\ launched' =
          [launched EXCEPT
              !.errorEmitted = TRUE,
              !.errors = Append(@, ErrorReport(ProcErrorMessage(launched.spawn.code),
                                            "launch", launched.handle))]
    /\ LaunchUnchanged

\* the process ends
ProcExit ==
    /\ launched.phase = "returned"
    /\ launched.proc \in {"alive", "signalled"}
    /\ launched' = [launched EXCEPT !.proc = "exited"]
    /\ LaunchUnchanged

\* the caller calls kill on the runner; proc.kill sends the signal to a
\* process that is there, does not send it, or throws
RunnerKill(killed) ==
    /\ launched.phase = "returned"
    /\ launched.kills < MaxKills
    /\ killed \in {"sent", "emits"} => launched.proc \in {"alive", "signalled"}
    /\ launched.handle = "noop" => killed = "notSent"
    /\ LET r == runnerKill(launched.handle, launched.proc, killed) IN
       launched' = [launched EXCEPT !.kills = @ + 1,
                                    !.lastKill = killed,
                                    !.killRaised = @ \/ r.raised,
                                    !.proc = r.proc,
                                    !.errors =
                                        IF r.reported
                                        THEN Append(@, ErrorReport(ProcErrorMessage("EPERM"),
                                                                   "kill", launched.handle))
                                        ELSE @]
    /\ LaunchUnchanged

NextLaunch ==
    \/ RunClaude
    \/ ProcErrorEvent
    \/ ProcExit
    \/ \E killed \in {"sent", "notSent", "throws", "emits"} : RunnerKill(killed)

SpecLaunch == InitLaunch /\ [][NextLaunch]_vars

----------------------------------------------------------------------------
(* Claims about the launch and the runner (SpecLaunch).                    *)

\* this step is a call of kill on the runner
KillStep == launched'.kills = launched.kills + 1

\* C19: kill on a runner never raises and is idempotent: any number of
\* calls, before or after the process has ended and on the runner of a
\* failed launch, return normally, and a call on a process that is not
\* running (already signalled, ended, or never started) leaves it as it is.
C19_KillNeverRaises ==
    [][KillStep =>
          /\ ~launched'.killRaised
          /\ launched.proc # "alive" => launched'.proc = launched.proc
          /\ launched'.handle = launched.handle]_vars

\* C19 witness: kill has been called three times on the runner of a process
\* that has ended, proc.kill threw in the last call, and no call raised
C19_Witness ==
    /\ launched.phase = "returned" /\ launched.handle = "proc"
    /\ launched.proc = "exited"
    /\ launched.kills = 3 /\ launched.lastKill = "throws"
    /\ ~launched.killRaised

\* the onError calls that report the launch failure
IsLaunchReport(e) == e.cause = "launch"
LaunchReports == SelectSeq(launched.errors, IsLaunchReport)

\* the launch failed and every report of the failure has been made
LaunchFailureReported ==
    /\ launched.phase = "returned"
    /\ launched.spawn.how # "ok"
    /\ launched.spawn.how = "emits" => launched.errorEmitted

\* C20 (as claimed): a launch failure is reported through onError exactly
\* once, with the binary-not-found message exactly when the code is ENOENT,
\* and before a runner backed by a process has been returned to the caller.
C20_LaunchFailureReportedBeforeHandle ==
    /\ Len(LaunchReports) <= 1
    /\ LaunchFailureReported =>
          /\ Len(LaunchReports) = 1
          /\ LaunchReports[1].message = NotFoundMessage
                <=> launched.spawn.code = "ENOENT"
          /\ ~LaunchReports[1].afterHandle

----------------------------------------------------------------------------
(* SpecStderr: the stderr 'data' handler of runClaude, on the chunks one   *)
(* running process writes to stderr.                                       *)

\* the most stderr chunks of one process
MaxChunks == 2
\* the most fragments one modelled chunk is made of
MaxFragments == 3

\* the pieces the chunks are made of
Fragments ==
    { <<"e", "r", "r">>, <<"O", "R">>, <<"F", "a", "i", "l", "e", "d">>,
      <<" ">>, <<NL>>, <<"x">> }

StderrChunks == {Flatten(fs) : fs \in SeqsUpTo(Fragments, MaxFragments)}

\* String.prototype.toLowerCase on the characters of the model
LowerOf(c) ==
    CASE c = "E" -> "e" [] c = "R" -> "r" [] c = "O" -> "o" [] c = "F" -> "f"
      [] OTHER -> c
ToLowerCase(text) == [i \in 1..Len(text) |-> LowerOf(text[i])]

StartsWith(text, prefix) ==
    Len(text) >= Len(prefix) /\ SubSeq(text, 1, Len(prefix)) = prefix

\* String.prototype.includes
RECURSIVE Includes(_, _)
Includes(text, sub) ==
    IF StartsWith(text, sub) THEN TRUE
    ELSE IF text = <<>> THEN FALSE
    ELSE Includes(Tail(text), sub)

ErrorWord == <<"e", "r", "r", "o", "r">>
FailedWord == <<"f", "a", "i", "l", "e", "d">>

\* mutant: the heuristic looks at the text as it is, not lower-cased
stderrDataCaseSensitive(chunk) ==
    LET text == Trim(Utf8ToString(chunk)) IN
    IF Includes(text, ErrorWord) \/ Includes(text, FailedWord) THEN <<text>> ELSE <<>>

\* proc.stderr.on("data", ...): the messages it gives onError
stderrData(chunk) ==
    LET text == Trim(Utf8ToString(chunk))
        lower == ToLowerCase(text)
    IN IF Includes(lower, ErrorWord) \/ Includes(lower, FailedWord)
       THEN <<text>> ELSE <<>>

\* runClaude has returned the runner of a process that is running
InitStderr ==
    /\ launched = [phase |-> "returned", spawn |-> [how |-> "ok", code |-> "none"],
                   sessionId |-> Undefined,
                   args |-> runClaudeArgs(<<"p">>, Undefined),
                   handle |-> "proc", proc |-> "alive",
                   errors |-> <<>>, errorEmitted |-> FALSE,
                   kills |-> 0, lastKill |-> "none", killRaised |-> FALSE,
                   stderr |-> <<>>]
    /\ modal = ModalOpened /\ procs = <<>> /\ stored = NoChat
    /\ storageOps = <<>> /\ restores = 0 /\ lastCallback = NoCallback
    /\ turnEvents = <<>> /\ plugin = NoPlugin
    /\ stream = <<>> /\ pos = 0 /\ buffer = <<>> /\ dispatched = <<>>
    /\ handlerThrew = FALSE /\ lastBatch = 0 /\ closed = FALSE /\ exited = NoExit
    /\ parsed = JNull /\ outcome = NoOutcome

\* the process writes a chunk to stderr and the 'data' handler runs
ProcStderr(chunk) ==
    /\ launched.phase = "returned"
    /\ launched.proc \in {"alive", "signalled"}
    /\ Len(launched.stderr) < MaxChunks
    /\ LET messages == stderrData(chunk) IN
       launched' =
          [launched EXCEPT
              !.stderr = Append(@, [chunk |-> chunk, messages |-> messages]),
              !.errors = @ \o [i \in 1..Len(messages) |->
                                  ErrorReport(messages[i], "stderr", launched.handle)]]
    /\ LaunchUnchanged

NextStderr ==
    \/ \E chunk \in StderrChunks : ProcStderr(chunk)
    \/ ProcExit

SpecStderr == InitStderr /\ [][NextStderr]_vars

----------------------------------------------------------------------------
(* Claims about the stderr heuristic (SpecStderr).                         *)

\* the text holds the word at some offset
HoldsWord(text, word) ==
    \E k \in 1..Len(text) :
        k + Len(word) - 1 <= Len(text) /\ SubSeq(text, k, k + Len(word) - 1) = word

\* the chunk, lower-cased, contains "error" or "failed"
LooksLikeFailure(chunk) ==
    \/ HoldsWord(ToLowerCase(Utf8ToString(chunk)), ErrorWord)
    \/ HoldsWord(ToLowerCase(Utf8ToString(chunk)), FailedWord)

\* C22: each stderr chunk causes one onError call, with the trimmed text of
\* the chunk, exactly when the chunk lower-cased contains "error" or
\* "failed", and no callback otherwise; the onError calls made are those of
\* the chunks, in chunk order.
C22_StderrHeuristic ==
    /\ \A i \in 1..Len(launched.stderr) :
          LET e == launched.stderr[i] IN
          e.messages = IF LooksLikeFailure(e.chunk)
                       THEN <<Trim(Utf8ToString(e.chunk))>> ELSE <<>>
    /\ [j \in 1..Len(launched.errors) |-> launched.errors[j].message]
          = Flatten([i \in 1..Len(launched.stderr) |-> launched.stderr[i].messages])

\* C22 witness: a chunk without either word was followed by the chunk
\* " errOR\n": only the second was reported, as "errOR"
C22_Witness ==
    /\ Len(launched.stderr) = 2
    /\ launched.stderr[1].chunk = <<"e", "r", "r", " ", "O", "R">>
    /\ launched.stderr[2].chunk = <<" ", "e", "r", "r", "O", "R">>
    /\ Len(launched.errors) = 1
    /\ launched.errors[1].message = <<"e", "r", "r", "O", "R">>

----------------------------------------------------------------------------
(* SpecSpawn: runClaude from its call to the call of spawn: the tool list  *)
(* of the settings, the --allowedTools argument and the environment of the *)
(* child process.                                                          *)

\* ClaudianPermissions, every combination of the five flags
Permissions ==
    [readVault : BOOLEAN, listVaultStructure : BOOLEAN, editCurrentFile : BOOLEAN,
     editAnyFile : BOOLEAN, createFiles : BOOLEAN]

\* DEFAULT_SETTINGS.permissions
DefaultPermissions ==
    [readVault |-> FALSE, listVaultStructure |-> FALSE, editCurrentFile |-> FALSE,
     editAnyFile |-> FALSE, createFiles |-> FALSE]

\* mutant: each edit flag pushes its own tools
buildToolsListPerFlag(permissions) ==
    <<"Read">>
    \o (IF permissions.listVaultStructure THEN <<"Glob", "Grep", "LS">> ELSE <<>>)
    \o (IF permissions.editCurrentFile THEN <<"Edit">> ELSE <<>>)
    \o (IF permissions.editAnyFile THEN <<"Edit", "Write">> ELSE <<>>)
    \o (IF permissions.createFiles THEN <<"Write">> ELSE <<>>)

\* buildToolsList(settings)
buildToolsList(permissions) ==
    <<"Read">>
    \o (IF permissions.listVaultStructure THEN <<"Glob", "Grep", "LS">> ELSE <<>>)
    \o (IF permissions.editCurrentFile \/ permissions.editAnyFile
        THEN <<"Edit">> ELSE <<>>)
    \o (IF permissions.editAnyFile \/ permissions.createFiles
        THEN <<"Write">> ELSE <<>>)

\* tools.join(",")
RECURSIVE JoinComma(_)
JoinComma(tools) ==
    IF tools = <<>> THEN ""
    ELSE IF Len(tools) = 1 THEN tools[1]
    ELSE tools[1] \o "," \o JoinComma(Tail(tools))

\* the variables of the parent's environment in the model: the two that
\* signal a nested agent, and two others
EnvNames == {"CLAUDECODE", "CLAUDE_CODE", "CLAUDE_CODE_ENTRYPOINT", "PATH"}
EnvValueOf(name) == IF name = "PATH" THEN "/usr/bin" ELSE "1"

\* process.env: a value for each variable that is set
Environments == {[n \in names |-> EnvValueOf(n)] : names \in SUBSET EnvNames}

\* delete env[name]
Delete(env, name) == [n \in DOMAIN env \ {name} |-> env[n]]

\* mutant: const env = process.env, the deletes act on the parent's object
sanitizedEnvShared(processEnv) ==
    LET env == Delete(Delete(processEnv, "CLAUDECODE"), "CLAUDE_CODE")
    IN [env |-> env, processEnv |-> env]

\* const env = { ...process.env }; delete env.CLAUDECODE; delete
\* env.CLAUDE_CODE: the environment given to spawn, and process.env after
sanitizedEnv(processEnv) ==
    LET copy == [n \in DOMAIN processEnv |-> processEnv[n]]
    IN [env |-> Delete(Delete(copy, "CLAUDECODE"), "CLAUDE_CODE"),
        processEnv |-> processEnv]

\* runClaude is called with the settings, in a process with the environment
InitSpawn ==
    /\ \E permissions \in Permissions, processEnv \in Environments :
          launched = [phase |-> "called", permissions |-> permissions,
                      processEnv |-> processEnv, processEnvBefore |-> processEnv,
                      tools |-> <<>>, allowedTools |-> "", env |-> << >>]
    /\ modal = ModalOpened /\ procs = <<>> /\ stored = NoChat
    /\ storageOps = <<>> /\ restores = 0 /\ lastCallback = NoCallback
    /\ turnEvents = <<>> /\ plugin = NoPlugin
    /\ stream = <<>> /\ pos = 0 /\ buffer = <<>> /\ dispatched = <<>>
    /\ handlerThrew = FALSE /\ lastBatch = 0 /\ closed = FALSE /\ exited = NoExit
    /\ parsed = JNull /\ outcome = NoOutcome

\* runClaude up to spawn(settings.claudeBinaryPath, args, { cwd, env, stdio })
SpawnClaude ==
    /\ launched.phase = "called"
    /\ LET tools == buildToolsList(launched.permissions)
           e == sanitizedEnv(launched.processEnv)
       IN launched' = [launched EXCEPT !.phase = "spawned",
                                       !.tools = tools,
                                       !.allowedTools = JoinComma(tools),
                                       !.env = e.env,
                                       !.processEnv = e.processEnv]
    /\ LaunchUnchanged

NextSpawn == SpawnClaude

SpecSpawn == InitSpawn /\ [][NextSpawn]_vars

----------------------------------------------------------------------------
(* Claims about the arguments and the environment of spawn (SpecSpawn).    *)

\* C23: the environment given to the spawned process holds neither
\* CLAUDECODE nor CLAUDE_CODE and holds every other variable of the parent
\* environment with its value; the parent's environment is as it was.
C23_SanitizedEnvironment ==
    launched.phase = "spawned" =>
        /\ DOMAIN launched.env = DOMAIN launched.processEnvBefore
                                    \ {"CLAUDECODE", "CLAUDE_CODE"}
        /\ \A n \in DOMAIN launched.env : launched.env[n] = launched.processEnvBefore[n]
        /\ launched.processEnv = launched.processEnvBefore

\* C23 witness: a process was spawned from a parent that has all four
\* variables set
C23_Witness ==
    /\ launched.phase = "spawned"
    /\ DOMAIN launched.processEnvBefore = EnvNames
    /\ DOMAIN launched.env = {"CLAUDE_CODE_ENTRYPOINT", "PATH"}

ToolsOf(tools) == {tools[i] : i \in 1..Len(tools)}

\* the tools the permissions allow, by the table of the README
AllowedBy(permissions) ==
    {"Read"}
    \cup (IF permissions.listVaultStructure THEN {"Glob", "Grep", "LS"} ELSE {})
    \cup (IF permissions.editCurrentFile \/ permissions.editAnyFile THEN {"Edit"} ELSE {})
    \cup (IF permissions.editAnyFile \/ permissions.createFiles THEN {"Write"} ELSE {})

\* C24: for every combination of the five permission flags the tool list
\* is: Read always; Glob, Grep, LS iff listVaultStructure; Edit iff
\* editCurrentFile or editAnyFile; Write iff editAnyFile or createFiles; no
\* tool twice, no other tool; with the default settings it is just Read;
\* the --allowedTools argument is the list joined by commas.
C24_ToolsList ==
    launched.phase = "spawned" =>
        /\ ToolsOf(launched.tools) = AllowedBy(launched.permissions)
        /\ Len(launched.tools) = Cardinality(ToolsOf(launched.tools))
        /\ launched.permissions = DefaultPermissions => launched.tools = <<"Read">>
        /\ launched.allowedTools = JoinComma(launched.tools)
        /\ launched.permissions.listVaultStructure /\ launched.permissions.editAnyFile
              => launched.allowedTools = "Read,Glob,Grep,LS,Edit,Write"

\* C24 witness: editCurrentFile and editAnyFile are both on, and createFiles:
\* the list holds Edit and Write once each
C24_Witness ==
    /\ launched.phase = "spawned"
    /\ launched.permissions.editCurrentFile /\ launched.permissions.editAnyFile
    /\ launched.permissions.createFiles /\ ~launched.permissions.listVaultStructure
    /\ launched.tools = <<"Read", "Edit", "Write">>

----------------------------------------------------------------------------
(* SpecPlugin: ClaudianPlugin (main.ts): onload, the settings tab's         *)
(* changes with saveSettings, and the storage closures of openModal, on    *)
(* the plugin's data file. Every await of loadData or saveData ends a      *)
(* step, so that calls in flight interleave.                               *)

\* the most calls of saveSettings, storage.save and storage.clear in all
MaxCalls == 3
\* the most of them in flight at once
MaxInFlight == 2

\* { ...a, ...b } and Object.assign({}, a, b): the keys of both, b's value
\* for a key of both
Assign(a, b) ==
    [k \in DOMAIN a \cup DOMAIN b |-> IF k \in DOMAIN b THEN b[k] ELSE a[k]]

\* { [key]: value }
Only(key, value) == [k \in {key} |-> value]

\* DEFAULT_SETTINGS
DefaultSettings ==
    [claudeBinaryPath |-> "claude", model |-> "claude-haiku-4-5",
     clearChatOnStart |-> FALSE, permissions |-> DefaultPermissions]

\* the _chat entries of the model: { sessionId, turns }
StoredChat(sessionId, turns) == [sessionId |-> sessionId, turns |-> turns]
ChatValues ==
    { StoredChat("s1", <<ChatTurnData(<<"p">>, <<"a">>)>>),
      StoredChat("s2", <<ChatTurnData(<<"p">>, <<"a">>),
                         ChatTurnData(<<"q">>, <<"b">>)>>) }

\* the data files the plugin may find when it loads: none (loadData gives
\* null, read as {}), or any of the keys model, clearChatOnStart, _chat and
\* a key the plugin does not know
DataFiles ==
    { [k \in keys |->
          CASE k = "model" -> "claude-sonnet-4-6"
            [] k = "clearChatOnStart" -> clear
            [] k = "_chat" -> StoredChat("s0", <<ChatTurnData(<<"o">>, <<"z">>)>>)
            [] k = "legacy" -> "x"] :
      keys \in SUBSET {"model", "clearChatOnStart", "_chat", "legacy"},
      clear \in BOOLEAN }

\* the _chat entry of a data file
ChatOf(data) ==
    IF "_chat" \in DOMAIN data
    THEN Chat(data["_chat"].sessionId, data["_chat"].turns) ELSE NoChat

\* loadSettings(): this.settings after it
loadSettings(data) ==
    LET merged == Assign(Assign(<<>>, DefaultSettings), data)
    IN [merged EXCEPT !["permissions"] =
            Assign(Assign(<<>>, DefaultPermissions), merged["permissions"])]

\* what a call writes with saveData, from what its loadData returned
ToWrite(op, existing, settings) ==
    CASE op.kind = "saveSettings" -> Assign(existing, settings)
      [] op.kind = "save" -> Assign(existing, Only("_chat", op.arg))
      [] op.kind = "clear" -> Delete(existing, "_chat")

NoCall == [kind |-> "none"]

InitPlugin ==
    /\ \E data \in DataFiles :
          plugin = [phase |-> "unloaded", data |-> data, settings |-> <<>>,
                    ops |-> <<>>, calls |-> 0, chatSaves |-> 0, started |-> <<>>,
                    dataAtStart |-> data, clearedOnStart |-> FALSE,
                    last |-> NoCall]
    /\ modal = ModalOpened /\ procs = <<>> /\ stored = NoChat
    /\ storageOps = <<>> /\ restores = 0 /\ lastCallback = NoCallback
    /\ turnEvents = <<>> /\ launched = NoLaunch
    /\ stream = <<>> /\ pos = 0 /\ buffer = <<>> /\ dispatched = <<>>
    /\ handlerThrew = FALSE /\ lastBatch = 0 /\ closed = FALSE /\ exited = NoExit
    /\ parsed = JNull /\ outcome = NoOutcome

PluginUnchanged ==
    UNCHANGED <<modal, procs, stored, storageOps, restores, lastCallback, turnEvents,
                launched, runnerVars, parseVars>>

\* onload(): nothing else of the plugin runs before it has returned
Onload ==
    /\ plugin.phase = "unloaded"
    /\ LET settings == loadSettings(plugin.data) IN
       plugin' = [plugin EXCEPT
                     !.phase = "loaded",
                     !.settings = settings,
                     !.clearedOnStart = settings["clearChatOnStart"],
                     !.data = IF settings["clearChatOnStart"]
                              THEN Delete(plugin.data, "_chat") ELSE plugin.data]
    /\ PluginUnchanged

\* a call of saveSettings, storage.save or storage.clear up to its first
\* await; the calls already in flight now overlap with it
Called(pl, kind, arg) ==
    [pl EXCEPT
        !.calls = @ + 1,
        !.chatSaves = IF kind = "save" THEN @ + 1 ELSE @,
        !.started = Append(@, kind),
        !.ops = [i \in 1..Len(pl.ops) |-> [pl.ops[i] EXCEPT !.overlapped = TRUE]]
                \o <<[kind |-> kind, arg |-> arg, phase |-> "loading",
                      towrite |-> <<>>, chatAtCall |-> ChatOf(pl.data),
                      overlapped |-> pl.ops # <<>>]>>]

CanCall ==
    /\ plugin.phase = "loaded"
    /\ plugin.calls < MaxCalls
    /\ Len(plugin.ops) < MaxInFlight

\* the settings tab: onChange assigns the setting and calls saveSettings
ChangeSetting(key, value) ==
    /\ CanCall
    /\ plugin.settings[key] # value
    /\ plugin' = Called([plugin EXCEPT !.settings[key] = value], "saveSettings", NoChat)
    /\ PluginUnchanged

\* storage.save(sessionId, turns), called by a modal when a chat turn is done
StorageSave(chat) ==
    /\ CanCall
    /\ plugin' = Called(plugin, "save", chat)
    /\ PluginUnchanged

\* storage.clear(), called by a modal's Clear
StorageClear ==
    /\ CanCall
    /\ plugin' = Called(plugin, "clear", NoChat)
    /\ PluginUnchanged

\* the loadData of a call in flight resolves; the call goes on to saveData
LoadDataResolved(i) ==
    /\ i \in 1..Len(plugin.ops)
    /\ plugin.ops[i].phase = "loading"
    /\ plugin' = [plugin EXCEPT
                     !.ops[i].phase = "saving",
                     !.ops[i].towrite = ToWrite(plugin.ops[i], plugin.data,
                                                plugin.settings)]
    /\ PluginUnchanged

\* the saveData of a call in flight resolves: the file is written and the
\* call completes
SaveDataResolved(i) ==
    /\ i \in 1..Len(plugin.ops)
    /\ plugin.ops[i].phase = "saving"
    /\ plugin' = [plugin EXCEPT
                     !.data = plugin.ops[i].towrite,
                     !.ops = RemoveAt(@, i),
                     !.last = [kind |-> plugin.ops[i].kind,
                               chatAtCall |-> plugin.ops[i].chatAtCall,
                               chatAfter |-> ChatOf(plugin.ops[i].towrite),
                               overlapped |-> plugin.ops[i].overlapped]]
    /\ PluginUnchanged

NextPlugin ==
    \/ Onload
    \/ \E value \in {"claude-haiku-4-5", "claude-sonnet-4-6"} : ChangeSetting("model", value)
    \/ \E value \in BOOLEAN : ChangeSetting("clearChatOnStart", value)
    \/ \E chat \in ChatValues : StorageSave(chat)
    \/ StorageClear
    \/ \E i \in 1..MaxInFlight : LoadDataResolved(i)
    \/ \E i \in 1..MaxInFlight : SaveDataResolved(i)

SpecPlugin == InitPlugin /\ [][NextPlugin]_vars

----------------------------------------------------------------------------
(* Claims about the plugin's data file (SpecPlugin).                       *)

\* C25 (as claimed): when a saveSettings call has completed, the stored
\* _chat entry is what it was immediately before the call (stated for the
\* calls during which no other call was in flight).
C25_SaveSettingsKeepsChat ==
    (plugin.last.kind = "saveSettings" /\ ~plugin.last.overlapped) =>
        plugin.last.chatAfter = plugin.last.chatAtCall

\* C26 (as claimed): with clearChatOnStart on, the data file has no _chat
\* entry after onload, its other keys being as they were, and has none
\* after any later saveSettings calls, as long as no chat turn is saved.
C26_ClearOnStartStaysCleared ==
    (plugin.phase = "loaded" /\ plugin.clearedOnStart /\ plugin.chatSaves = 0) =>
        /\ "_chat" \notin DOMAIN plugin.data
        /\ plugin.calls = 0 =>
              plugin.data = Delete(plugin.dataAtStart, "_chat")

\* every call has completed, the call made last was storage.clear, and
\* saveSettings was not called
ClearWasLast ==
    /\ plugin.phase = "loaded"
    /\ plugin.ops = <<>>
    /\ plugin.started # <<>>
    /\ Last(plugin.started) = "clear"
    /\ \A i \in 1..Len(plugin.started) : plugin.started[i] # "saveSettings"

\* C28 (as claimed): after handleClear the stored data ends up with no
\* _chat entry, for any interleaving of its storage.clear with a
\* storage.save still in flight from a turn completed before.
C28_ClearEndsWithNoChat ==
    ClearWasLast => "_chat" \notin DOMAIN plugin.data

----------------------------------------------------------------------------
(* SpecRun: the Run and Cancel controls. The modal of SpecModal with the   *)
(* prompts a user may leave in the textarea (empty, blank, padded) and the *)
(* events that end a run; the Clear button and the tool events are left    *)
(* out.                                                                    *)

\* what the user may have typed in the textarea
RunPromptValues == { <<>>, <<" ">>, <<" ", "p", NL>> }
\* how spawn answers
LaunchOutcomes == {"ok", "throws"}
\* the events of a run that fill the transcript or change the status
RunEventKinds == {"text", "done", "resultError", "stderr"}

NextRun ==
    \/ \E typed \in RunPromptValues, launch \in LaunchOutcomes : HandleRun(typed, launch)
    \/ HandleCancel
    \/ \E newMode \in {"quick", "chat"} : SwitchMode(newMode)
    \/ CloseModal
    \/ RestoreLoaded
    \/ \E i \in 1..MaxOps : StorageOpLoaded(i)
    \/ \E i \in 1..MaxOps : StorageOpWritten(i)
    \/ \E r \in 1..MaxRuns, kind \in RunEventKinds : ProcEvent(r, kind, "none")
    \/ \E r \in 1..MaxRuns : ProcClose(r)

SpecRun == InitModal /\ [][NextRun]_vars

----------------------------------------------------------------------------
(* Claims about the Run and Cancel controls (SpecRun).                     *)

\* handleRun has returned without doing anything: no process, no storage
\* call, and the modal as it was with what the user typed in the textarea
HandleRunDidNothing(typed) ==
    /\ procs' = procs
    /\ modal' = [modal EXCEPT !.promptValue = typed]
    /\ storageOps' = storageOps /\ stored' = stored /\ restores' = restores

\* handleRun has called runClaude once, for the trimmed prompt and in the
\* mode of the modal, and the runs before are as they were
OneRunLaunched(typed) ==
    /\ Len(procs') = Len(procs) + 1
    /\ SubSeq(procs', 1, Len(procs)) = procs
    /\ Last(procs').mode = modal.mode
    /\ Last(procs').prompt = Trim(typed)
    /\ modal'.mode = modal.mode
    /\ modal'.runner = Len(procs')

\* C34 (as claimed): handleRun does nothing (no process spawned, no state
\* changed) when the status is running or the trimmed prompt is empty;
\* otherwise it starts exactly one run in the current mode and sets the
\* status to running.
C34_HandleRunStartsARun ==
    [][\A typed \in RunPromptValues, launch \in LaunchOutcomes :
          HandleRun(typed, launch) =>
             IF modal.status = "running" \/ Trim(typed) = <<>>
             THEN HandleRunDidNothing(typed)
             ELSE /\ OneRunLaunched(typed)
                  /\ Last(procs').state = "running"
                  /\ modal'.status = "running"]_vars

\* C34 (amended): handleRun does nothing (no process spawned, no state
\* changed) when the status is running or the trimmed prompt is empty;
\* otherwise it calls runClaude exactly once, in the current mode and with
\* the trimmed prompt: when spawn succeeds one process is started and the
\* status is running, and when spawn throws no process is started, the
\* failure is reported through onError before handleRun returns and the
\* status is error.
C34_HandleRunLaunchesOnce ==
    [][\A typed \in RunPromptValues, launch \in LaunchOutcomes :
          HandleRun(typed, launch) =>
             IF modal.status = "running" \/ Trim(typed) = <<>>
             THEN HandleRunDidNothing(typed)
             ELSE /\ OneRunLaunched(typed)
                  /\ IF launch = "ok"
                     THEN /\ Last(procs').state = "running"
                          /\ modal'.status = "running"
                     ELSE /\ Last(procs').state = "failed"
                          /\ modal'.status = "error"]_vars

\* C34 witness: in chat mode a run of the prompt "p", typed with blanks
\* around it, is running and is the only run, and the textarea holds a
\* blank prompt typed since: handleRun started one run and then did nothing
C34_Witness ==
    /\ modal.mode = "chat" /\ modal.status = "running"
    /\ Len(procs) = 1 /\ procs[1].state = "running" /\ modal.runner = 1
    /\ procs[1].prompt = <<"p">>
    /\ modal.promptValue = <<" ">>

\* kill was called on the runner the modal referenced, if any: its process
\* is not running afterwards, and no other process is touched
RunnerKilled ==
    /\ Len(procs') = Len(procs)
    /\ \A r \in 1..Len(procs) :
          IF r = modal.runner /\ procs[r].state = "running"
          THEN procs'[r].state = "killed"
          ELSE procs'[r] = procs[r]

\* the modal was closed: onClose has killed and released the runner
ModalClosed ==
    /\ ~modal'.isOpen
    /\ modal'.runner = NoRunner
    /\ RunnerKilled

\* C35: handleCancel while the status is running and a runner exists kills
\* the runner, clears the runner reference, discards the transcript of the
\* chat turn in progress and sets the status to cancelled, and the modal
\* stays open; in every other state it closes the modal; closing the modal
\* kills the runner that is still referenced, if any.
C35_CancelOrClose ==
    [][/\ HandleCancel =>
             IF modal.status = "running" /\ modal.runner # NoRunner
             THEN /\ RunnerKilled
                  /\ modal'.runner = NoRunner
                  /\ modal.mode = "chat" =>
                        /\ modal'.currentTurnMarkdown = <<>>
                        /\ modal'.currentTextContent = <<>>
                        /\ ~modal'.currentTextBlock
                  /\ modal'.persistedTurns = modal.persistedTurns
                  /\ modal'.status = "cancelled"
                  /\ modal'.isOpen
             ELSE ModalClosed
       /\ CloseModal => ModalClosed]_vars

\* C35 witness: a chat run had delivered the text "a" when the user
\* cancelled it: the process is killed, the transcript is empty, the status
\* is cancelled, the modal is open and references no runner
C35_Witness ==
    /\ Len(procs) = 1 /\ procs[1].mode = "chat" /\ procs[1].state = "killed"
    /\ lastCallback = [n |-> 1, run |-> 1, kind |-> "text", id |-> "none"]
    /\ modal.status = "cancelled" /\ modal.runner = NoRunner
    /\ modal.currentTurnMarkdown = <<>>
    /\ modal.isOpen

\* the callbacks that tell the modal a run is over: onDone and onError
TerminalKinds == {"done", "resultError", "stderr"}

\* C36 (as claimed): a run delivers at most one terminal notification: when
\* onDone or onError of a run follows an onDone or onError of the same run,
\* it does not change the status of the modal. The process writes one result
\* record at most, so the earlier notification is an onError of the stderr
\* heuristic.
C36_OneTerminalNotification ==
    [][(/\ lastCallback'.n = lastCallback.n + 1
        /\ lastCallback.kind \in TerminalKinds
        /\ lastCallback'.kind \in TerminalKinds
        /\ lastCallback'.run = lastCallback.run
        /\ ~procs[lastCallback.run].hasResult) =>
          modal'.status = modal.status]_vars

\* the characters a transcript holds when all its text is the text of run r
CharsOfRun(r) == {TextOf(r)[i] : i \in 1..Len(TextOf(r))} \cup {NL}

\* this step is a callback of a chat run other than the one whose turn is in
\* progress
EarlierRunStep ==
    /\ lastCallback'.n = lastCallback.n + 1
    /\ modal.mode = "chat" /\ modal.status = "running"
    /\ modal.runner # NoRunner
    /\ lastCallback'.run < modal.runner

\* C37 (as claimed): a persisted turn pairs a prompt with transcript text
\* produced only by the process launched for that prompt: the turn a run
\* finalizes holds the run's prompt and no text of another run, and a
\* callback of an earlier run neither adds to, nor truncates, nor finalizes
\* the turn of the run in progress.
C37_TurnsHoldTheirOwnRunOnly ==
    [][/\ ChatResultStep("done") =>
             LET turn == Last(modal'.persistedTurns) IN
             /\ turn.userText = procs[lastCallback'.run].prompt
             /\ \A i \in 1..Len(turn.claudeMarkdown) :
                   turn.claudeMarkdown[i] \in CharsOfRun(lastCallback'.run)
       /\ EarlierRunStep =>
             /\ modal'.currentTurnMarkdown = modal.currentTurnMarkdown
             /\ modal'.persistedTurns = modal.persistedTurns]_vars

----------------------------------------------------------------------------
(* SpecTab: the permission toggles of the settings tab, from the default   *)
(* settings. A toggle's onChange assigns the flags and calls saveSettings, *)
(* which awaits loadData and then saveData; each await ends a step.        *)

\* the most calls of saveSettings in flight at once
MaxTabSaves == 2

PermissionFlags ==
    {"readVault", "listVaultStructure", "editCurrentFile", "editAnyFile",
     "createFiles"}

\* mutant: every toggle assigns its own flag only
onChangeOwnFlagOnly(permissions, flag, value) ==
    [permissions EXCEPT ![flag] = value]

\* the onChange handlers of the five toggles, up to the call of
\* saveSettings: the permissions after the toggle of `flag` reported `value`
onChange(permissions, flag, value) ==
    CASE flag = "editCurrentFile" ->
            IF ~value
            THEN [permissions EXCEPT !.editCurrentFile = value, !.editAnyFile = FALSE]
            ELSE [permissions EXCEPT !.editCurrentFile = value]
      [] flag = "editAnyFile" ->
            IF value
            THEN [permissions EXCEPT !.editAnyFile = value, !.editCurrentFile = TRUE]
            ELSE [permissions EXCEPT !.editAnyFile = value]
      [] OTHER -> [permissions EXCEPT ![flag] = value]

\* no toggle has been used
NoToggle == [flag |-> "none", value |-> FALSE]

\* the plugin loaded without a data file and the settings tab displayed
InitTab ==
    /\ plugin = [phase |-> "tab", settings |-> loadSettings(<<>>), data |-> <<>>,
                 ops |-> <<>>, last |-> NoToggle]
    /\ modal = ModalOpened /\ procs = <<>> /\ stored = NoChat
    /\ storageOps = <<>> /\ restores = 0 /\ lastCallback = NoCallback
    /\ turnEvents = <<>> /\ launched = NoLaunch
    /\ stream = <<>> /\ pos = 0 /\ buffer = <<>> /\ dispatched = <<>>
    /\ handlerThrew = FALSE /\ lastBatch = 0 /\ closed = FALSE /\ exited = NoExit
    /\ parsed = JNull /\ outcome = NoOutcome

\* the user flips a toggle: onChange(value) up to its `await saveSettings()`,
\* that is up to the loadData of saveSettings. A toggle that has not been
\* displayed again since another handler changed its flag reports the
\* opposite of what it showed, so value is either boolean
TogglePermission(flag, value) ==
    /\ Len(plugin.ops) < MaxTabSaves
    /\ plugin' = [plugin EXCEPT
                     !.settings["permissions"] = onChange(@, flag, value),
                     !.ops = Append(@, [phase |-> "loading", towrite |-> <<>>]),
                     !.last = [flag |-> flag, value |-> value]]
    /\ PluginUnchanged

\* loadData of a saveSettings resolves: { ...existing, ...this.settings } is
\* handed to saveData
TabLoadDataResolved(i) ==
    /\ i \in 1..Len(plugin.ops)
    /\ plugin.ops[i].phase = "loading"
    /\ plugin' = [plugin EXCEPT
                     !.ops[i] = [phase |-> "saving",
                                 towrite |-> Assign(plugin.data, plugin.settings)]]
    /\ PluginUnchanged

\* saveData of a saveSettings resolves; the handler returns (after
\* display(), for the two edit toggles)
TabSaveDataResolved(i) ==
    /\ i \in 1..Len(plugin.ops)
    /\ plugin.ops[i].phase = "saving"
    /\ plugin' = [plugin EXCEPT !.data = plugin.ops[i].towrite,
                                !.ops = RemoveAt(@, i)]
    /\ PluginUnchanged

NextTab ==
    \/ \E flag \in PermissionFlags, value \in BOOLEAN : TogglePermission(flag, value)
    \/ \E i \in 1..MaxTabSaves : TabLoadDataResolved(i)
    \/ \E i \in 1..MaxTabSaves : TabSaveDataResolved(i)

SpecTab == InitTab /\ [][NextTab]_vars

----------------------------------------------------------------------------
(* Claims about the settings tab (SpecTab).                                *)

\* editAnyFile implies editCurrentFile
EditAnyImpliesEditCurrent(permissions) ==
    permissions.editAnyFile => permissions.editCurrentFile

\* C39: starting from the default settings, after any sequence of toggles
\* the permissions (those of the settings and those written to the data
\* file) satisfy editAnyFile implies editCurrentFile: after editAnyFile is
\* turned on both flags are on, and after editCurrentFile is turned off
\* both are off.
C39_EditAnyImpliesEditCurrent ==
    /\ EditAnyImpliesEditCurrent(plugin.settings["permissions"])
    /\ "permissions" \in DOMAIN plugin.data =>
          EditAnyImpliesEditCurrent(plugin.data["permissions"])
    /\ plugin.last = [flag |-> "editAnyFile", value |-> TRUE] =>
          /\ plugin.settings["permissions"].editAnyFile
          /\ plugin.settings["permissions"].editCurrentFile
    /\ plugin.last = [flag |-> "editCurrentFile", value |-> FALSE] =>
          /\ ~plugin.settings["permissions"].editCurrentFile
          /\ ~plugin.settings["permissions"].editAnyFile

\* C39 witness: editAnyFile was turned on, which turned editCurrentFile on,
\* and saved; then editCurrentFile was turned off, which turned editAnyFile
\* off, while the data file still holds both flags on
C39_Witness ==
    /\ plugin.last = [flag |-> "editCurrentFile", value |-> FALSE]
    /\ "permissions" \in DOMAIN plugin.data
    /\ plugin.data["permissions"].editAnyFile
    /\ plugin.data["permissions"].editCurrentFile
    /\ ~plugin.settings["permissions"].editAnyFile
    /\ ~plugin.settings["permissions"].editCurrentFile

----------------------------------------------------------------------------
(* SpecPrompt: what runClaude derives from the permissions for one run:    *)
(* the tool list of --allowedTools and the permission instructions of the  *)
(* system prompt.                                                          *)

\* currentFilePath: no active file, or the path of the active file
FilePaths == {Null, "note.md"}

\* a line of the instructions: its text, and for a template line the path
\* of the active file that follows the text (the dash of the source's
\* RESTRICTED lines is written --)
Line(text) == <<text>>
WithPath(text, path) == <<text, path>>

\* buildPermissionInstructions(settings, currentFilePath): its lines
buildPermissionInstructions(permissions, currentFilePath) ==
    <<Line("## Permissions"), Line(""),
      Line("You have the following permissions in this vault:"), Line("")>>
    \o <<IF permissions.readVault
         THEN Line("- Read files: YES (any file in the vault)")
         ELSE IF currentFilePath # Null
         THEN WithPath("- Read files: RESTRICTED -- you may only read the currently active file: ",
                       currentFilePath)
         ELSE Line("- Read files: RESTRICTED -- no file is currently active, you may not read any files")>>
    \o <<IF permissions.listVaultStructure
         THEN Line("- List vault structure (Glob, Grep, LS): YES")
         ELSE Line("- List vault structure (Glob, Grep, LS): NO")>>
    \o <<IF permissions.editAnyFile
         THEN Line("- Edit any file: YES")
         ELSE IF permissions.editCurrentFile
         THEN IF currentFilePath # Null
              THEN WithPath("- Edit files: RESTRICTED -- you may only edit the currently active file: ",
                            currentFilePath)
              ELSE Line("- Edit files: RESTRICTED -- no file is currently active")
         ELSE Line("- Edit files: NO")>>
    \o <<IF permissions.createFiles
         THEN Line("- Create new files: YES")
         ELSE Line("- Create new files: NO")>>
    \o <<Line(""),
         Line("Strictly respect these permissions. Do not attempt actions outside what is permitted above.")>>

\* runClaude has been called with these settings and this active file
InitPrompt ==
    /\ \E permissions \in Permissions, currentFilePath \in FilePaths :
          launched = [phase |-> "called", permissions |-> permissions,
                      currentFilePath |-> currentFilePath,
                      tools |-> <<>>, instructions |-> <<>>]
    /\ modal = ModalOpened /\ procs = <<>> /\ stored = NoChat
    /\ storageOps = <<>> /\ restores = 0 /\ lastCallback = NoCallback
    /\ turnEvents = <<>> /\ plugin = NoPlugin
    /\ stream = <<>> /\ pos = 0 /\ buffer = <<>> /\ dispatched = <<>>
    /\ handlerThrew = FALSE /\ lastBatch = 0 /\ closed = FALSE /\ exited = NoExit
    /\ parsed = JNull /\ outcome = NoOutcome

\* runClaude up to the arguments of spawn: the tool list and, in
\* buildSystemPrompt, the permission instructions
BuildArguments ==
    /\ launched.phase = "called"
    /\ launched' = [launched EXCEPT
                       !.phase = "built",
                       !.tools = buildToolsList(launched.permissions),
                       !.instructions =
                           buildPermissionInstructions(launched.permissions,
                                                       launched.currentFilePath)]
    /\ UNCHANGED <<modal, procs, stored, storageOps, restores, lastCallback,
                   turnEvents, plugin, runnerVars, parseVars>>

NextPrompt == BuildArguments

SpecPrompt == InitPrompt /\ [][NextPrompt]_vars

----------------------------------------------------------------------------
(* Claims about the permission instructions (SpecPrompt).                  *)

\* the instructions hold this line
States(instructions, line) ==
    \E i \in 1..Len(instructions) : instructions[i] = Line(line)

\* the first half of C40: when the instructions state "Edit files: NO", the
\* allow-list does not hold Edit
NoEditMeansNoEditTool ==
    (launched.phase = "built" /\ States(launched.instructions, "- Edit files: NO")) =>
        "Edit" \notin ToolsOf(launched.tools)

\* C40 (as claimed): for every combination of the permission flags and the
\* active file, when the instructions state "Edit files: NO" the allow-list
\* does not hold Edit, and when they state "Create new files: NO" the
\* allow-list does not hold Write.
C40_InstructionsAgreeWithTools ==
    /\ NoEditMeansNoEditTool
    /\ (launched.phase = "built"
        /\ States(launched.instructions, "- Create new files: NO")) =>
           "Write" \notin ToolsOf(launched.tools)

====
